---------------------------- MODULE Spec2Model ----------------------------
(***************************************************************************)
(* ScamShield: the rule-based scam analyzer (lib/scam-analyzer, here       *)
(* src/unnamed/part_000) and the POST /api/analyze route handler           *)
(* (src/unnamed/part_001), modelled as a state machine.                    *)
(*                                                                         *)
(* Text is a TLA+ string.  Three kinds of character that the source uses   *)
(* cannot be written in a module and have stand-ins:                       *)
(*     "$"  stands for the rupee sign U+20B9,                              *)
(*     the characters of DevanagariChars stand for code points of the      *)
(*     Devanagari block U+0900..U+097F (see there),                        *)
(* and the inputs of the model are strings over InputChars, which holds    *)
(* neither a real "$" nor the stand-in punctuation as itself.              *)
(***************************************************************************)
EXTENDS Integers, Sequences, FiniteSets, TLC

(***************************************************************************)
(* Characters and the string primitives of the JavaScript runtime.         *)
(***************************************************************************)
Lower == {"a", "b", "c", "d", "e", "f", "g", "h", "i", "j", "k", "l", "m",
          "n", "o", "p", "q", "r", "s", "t", "u", "v", "w", "x", "y", "z"}

Upper == {"A", "B", "C", "D", "E", "F", "G", "H", "I", "J", "K", "L", "M",
          "N", "O", "P", "Q", "R", "S", "T", "U", "V", "W", "X", "Y", "Z"}

Digit == {"0", "1", "2", "3", "4", "5", "6", "7", "8", "9"}

\* \w of a RegExp without the u flag: [A-Za-z0-9_].
WordChars == Lower \cup Upper \cup Digit \cup {"_"}

\* \s: the white space the inputs of the model can hold.
SpaceChars == {" ", "\t", "\n"}

\* Stand-ins for Devanagari code points: U+0905 (a), U+092D (bha),
\* U+0940 (sign ii), U+091C (ja), U+0924 (ta), U+092C (ba),
\* U+0902 (anusvara), U+0926 (da), in this order.
DevanagariChars == {"~", "^", "|", "{", "}", "[", "]", "<"}

\* s[i], "" outside the string.
At(s, i) == IF i >= 1 /\ i <= Len(s) THEN SubSeq(s, i, i) ELSE ""

\* Whether w occurs in s right after the first p characters.
LitAt(s, p, w) == p + Len(w) <= Len(s) /\ SubSeq(s, p + 1, p + Len(w)) = w

\* String.prototype.startsWith, endsWith, includes.
startsWith(s, w) == LitAt(s, 0, w)

endsWith(s, w) == Len(w) <= Len(s) /\ LitAt(s, Len(s) - Len(w), w)

includes(s, w) == \E p \in 0..(Len(s) - Len(w)) : LitAt(s, p, w)

LowerOf(c) ==
    CASE c = "A" -> "a" [] c = "B" -> "b" [] c = "C" -> "c" [] c = "D" -> "d"
      [] c = "E" -> "e" [] c = "F" -> "f" [] c = "G" -> "g" [] c = "H" -> "h"
      [] c = "I" -> "i" [] c = "J" -> "j" [] c = "K" -> "k" [] c = "L" -> "l"
      [] c = "M" -> "m" [] c = "N" -> "n" [] c = "O" -> "o" [] c = "P" -> "p"
      [] c = "Q" -> "q" [] c = "R" -> "r" [] c = "S" -> "s" [] c = "T" -> "t"
      [] c = "U" -> "u" [] c = "V" -> "v" [] c = "W" -> "w" [] c = "X" -> "x"
      [] c = "Y" -> "y" [] c = "Z" -> "z" [] OTHER -> c

Min(a, b) == IF a <= b THEN a ELSE b

Max(a, b) == IF a >= b THEN a ELSE b

SetMin(S) == CHOOSE x \in S : \A y \in S : x <= y

SetMax(S) == CHOOSE x \in S : \A y \in S : x >= y

\* The least and the greatest element of S, d when S is empty.
SetMinOr(S, d) == IF S = {} THEN d ELSE SetMin(S)

SetMaxOr(S, d) == IF S = {} THEN d ELSE SetMax(S)

\* `const x = ...': F of the value x, which is computed once.
Bind(x, F(_)) == F(x)

\* The characters a..b of s, "" when a > b.
Slice(s, a, b) == IF a > b THEN "" ELSE SubSeq(s, a, b)

\* The de-leet table of deleet.
DeleetChar(c) ==
    CASE c = "0" -> "o" [] c = "1" -> "l" [] c = "3" -> "e" [] c = "5" -> "s"
      [] c = "4" -> "a" [] c = "7" -> "t" [] c = "8" -> "b" [] OTHER -> c

\* The characters of the model that stand for characters outside ASCII.
NonAscii == DevanagariChars \cup {"$"}

\* What a character c that follows the character prev (prev = "" at the
\* start) becomes under the rewriting named kind with the character set cs:
\*   lower     String.prototype.toLowerCase
\*   collapse  replace(/\s+/g, ' '): a run of white space becomes one space
\*   drop      replace(/[cs]/g, ''): the characters of cs are removed
\*   keep      replace(/[^cs]/g, ''): the characters of cs are kept
\*   deleet    the de-leet table
\*   encode    the percent-encoding of a path or query by the URL parser: a
\*             space becomes %20, a character outside ASCII the escapes of
\*             its bytes (%E0 stands for them)
\*   humanize  replace(/_/g, ' ')
CharAs(c, prev, kind, cs) ==
    CASE kind = "lower"    -> LowerOf(c)
      [] kind = "collapse" -> IF c \notin SpaceChars THEN c
                              ELSE IF prev \in SpaceChars THEN "" ELSE " "
      [] kind = "drop"     -> IF c \in cs THEN "" ELSE c
      [] kind = "keep"     -> IF c \in cs THEN c ELSE ""
      [] kind = "deleet"   -> DeleetChar(c)
      [] kind = "encode"   -> CASE c = " "        -> "%20"
                                [] c = "\""       -> "%22"
                                [] c = ">"        -> "%3E"
                                [] c \in NonAscii -> "%E0"
                                [] OTHER          -> c
      [] kind = "humanize" -> IF c = "_" THEN " " ELSE c

\* The characters lo..hi of s rewritten one by one, by halves.
RECURSIVE MapChars(_, _, _, _, _)
MapChars(s, lo, hi, kind, cs) ==
    IF lo > hi THEN ""
    ELSE IF lo = hi THEN CharAs(At(s, lo), At(s, lo - 1), kind, cs)
    ELSE MapChars(s, lo, (lo + hi) \div 2, kind, cs)
             \o MapChars(s, (lo + hi) \div 2 + 1, hi, kind, cs)

\* String.prototype.toLowerCase.
toLowerCase(s) == MapChars(s, 1, Len(s), "lower", {})

\* The index of the first character of s at or after i that is in cs,
\* Len(s) + 1 when there is none.
IndexOfAny(s, i, cs) ==
    SetMinOr({j \in i..Len(s) : At(s, j) \in cs}, Max(i, Len(s) + 1))

\* The index of the last character of s at or before i that is in cs, 0
\* when there is none.
LastIndexOfAny(s, i, cs) ==
    SetMaxOr({j \in 1..i : At(s, j) \in cs}, Min(i, 0))

\* The index of the first character of s at or after i that is not in cs.
SkipAll(s, i, cs) ==
    SetMinOr({j \in i..Len(s) : At(s, j) \notin cs}, Max(i, Len(s) + 1))

\* The index of the last character of s at or before i that is not in cs.
SkipAllBack(s, i, cs) ==
    SetMaxOr({j \in 1..i : At(s, j) \notin cs}, Min(i, 0))

\* String.prototype.trim.
trim(s) == Slice(s, SkipAll(s, 1, SpaceChars), SkipAllBack(s, Len(s), SpaceChars))

\* s.replace(/\s+/g, ' ') from character i on.
CollapseFrom(s, i) == MapChars(s, i, Len(s), "collapse", {})

\* s from character i on with the characters of the set drop removed.
StripFrom(s, i, drop) == MapChars(s, i, Len(s), "drop", drop)

\* s.replace(/\D/g, ''): the digits of s from character i on.
DigitsFrom(s, i) == MapChars(s, i, Len(s), "keep", Digit)

(***************************************************************************)
(* Regular expressions.  A pattern is a tree of records:                   *)
(*   Lit(w)          the literal w                                         *)
(*   Words(ws)       (w1|w2|...), an alternation of literals, in order     *)
(*   WB              \b                                                    *)
(*   Bol, Eol        ^ and $ (no pattern of the source has the m flag)     *)
(*   Rep(c, lo, hi)  a character class c repeated lo to hi times, greedy;  *)
(*                   hi = -1 for no upper limit (c+ is Rep(c, 1, -1))      *)
(*   Star(x)         (x)*, greedy                                          *)
(*   Cat(xs)         the concatenation of the patterns of the tuple xs     *)
(*   Alt(xs)         the alternation of the patterns of the tuple xs       *)
(* An optional character inside an alternative (expires?, no\.?) is        *)
(* written as two alternatives, the longer first.                          *)
(* The source's patterns are matched against lower-cased text or carry the *)
(* i flag; the i flag is modelled by matching the lower-cased text against *)
(* the pattern written in lower case.                                      *)
(***************************************************************************)
Lit(w) == [t |-> "lit", w |-> w]

Words(ws) == [t |-> "words", ws |-> ws]

WB == [t |-> "wb"]

Bol == [t |-> "bol"]

Eol == [t |-> "eol"]

Rep(c, lo, hi) == [t |-> "rep", c |-> c, lo |-> lo, hi |-> hi]

Star(x) == [t |-> "star", x |-> x]

Cat(xs) == [t |-> "cat", xs |-> xs]

Alt(xs) == [t |-> "alt", xs |-> xs]

\* \b(w1|w2|...)\b
WordsB(ws) == Cat(<<WB, Words(ws), WB>>)

\* \b(a1|a2|...).{0,n}(b1|b2|...)\b
Gap(as, n, bs) == Cat(<<WB, Words(as), Rep("dot", 0, n), Words(bs), WB>>)

\* Whether the character ch belongs to the class named c.
InClass(ch, c) ==
    CASE c = "dot"      -> ch # "" /\ ch # "\n"                 \* .
      [] c = "space"    -> ch \in SpaceChars                    \* \s
      [] c = "nonspace" -> ch # "" /\ ch \notin SpaceChars      \* [^\s]
      [] c = "digit"    -> ch \in Digit                         \* \d  [0-9]
      [] c = "period"   -> ch = "."                             \* \.
      [] c = "loweralnum" -> ch \in Lower \cup Digit            \* [a-z0-9]
      [] c = "host"     -> ch \in Lower \cup Digit \cup {"-"}   \* [a-zA-Z0-9-]
      [] c = "hostdot"  -> ch \in Lower \cup Digit \cup {"-", "."}
                                                                \* [a-z0-9.-] /i
      [] c = "phone"    -> ch \in Digit \cup SpaceChars \cup {"-", "(", ")"}
                                                                \* [0-9\s\-()]
      [] c = "plus"     -> ch = "+"                             \* [+]

\* The number of characters of class c that follow the first p characters
\* of s, counted up to max (max = -1: no limit).
RunWithin(s, p, c, limit) ==
    SetMinOr({i \in 1..limit : ~InClass(At(s, p + i), c)}, Max(limit, 0) + 1) - 1

Run(s, p, c, max) ==
    RunWithin(s, p, c, IF max = -1 THEN Len(s) - p ELSE Min(max, Len(s) - p))

\* \b after the first p characters of s.
IsBoundary(s, p) == (At(s, p) \in WordChars) # (At(s, p + 1) \in WordChars)

\* The concatenation of the sequences lo..hi of a sequence of sequences,
\* by halves.
RECURSIVE Flatten(_, _, _)
Flatten(seqs, lo, hi) ==
    IF lo > hi THEN <<>>
    ELSE IF lo = hi THEN seqs[lo]
    ELSE Flatten(seqs, lo, (lo + hi) \div 2)
             \o Flatten(seqs, (lo + hi) \div 2 + 1, hi)

\* (w1|w2|...) from p: the ends of the words that occur there, in the
\* order of the alternatives.
WordsAt(ws, s, p) ==
    LET Occurs(k) == LitAt(s, p, ws[k])
    IN  SelectSeq([k \in 1..Len(ws) |-> k], Occurs)

WordsEnds(ws, s, p) ==
    Bind(WordsAt(ws, s, p), LAMBDA ks : [j \in 1..Len(ks) |-> p + Len(ws[ks[j]])])

\* Ends(n, s, p): the positions at which a match of pattern n that starts
\* at position p can end, in the order in which a backtracking matcher
\* tries them (a position is the number of characters before it,
\* 0..Len(s)).  The head of the sequence is the end of the match that
\* RegExp.prototype.exec reports.
RECURSIVE Ends(_, _, _)
RECURSIVE CatEnds(_, _, _, _)
RECURSIVE CatOver(_, _, _, _)
RECURSIVE AltEnds(_, _, _, _)
RECURSIVE StarOver(_, _, _, _, _)
Ends(n, s, p) ==
    CASE n.t = "lit"   -> IF LitAt(s, p, n.w) THEN <<p + Len(n.w)>> ELSE <<>>
      [] n.t = "words" -> WordsEnds(n.ws, s, p)
      [] n.t = "wb"    -> IF IsBoundary(s, p) THEN <<p>> ELSE <<>>
      [] n.t = "bol"   -> IF p = 0 THEN <<p>> ELSE <<>>
      [] n.t = "eol"   -> IF p = Len(s) THEN <<p>> ELSE <<>>
      [] n.t = "rep"   -> Bind(Run(s, p, n.c, n.hi), LAMBDA r :
                              IF r < n.lo THEN <<>>
                              ELSE [i \in 1..(r - n.lo + 1) |-> p + r + 1 - i])
      [] n.t = "star"  -> StarOver(Ends(n.x, s, p), 1, n.x, s, p)
      [] n.t = "cat"   -> CatEnds(n.xs, 1, s, p)
      [] n.t = "alt"   -> AltEnds(n.xs, 1, s, p)

CatEnds(xs, k, s, p) ==
    IF k > Len(xs) THEN <<p>> ELSE CatOver(Ends(xs[k], s, p), xs, k, s)

\* The rest of a concatenation from each end in es of its element k, in
\* the order of es.
CatOver(es, xs, k, s) ==
    Flatten([i \in 1..Len(es) |-> CatEnds(xs, k + 1, s, es[i])], 1, Len(es))

AltEnds(xs, k, s, p) ==
    IF k > Len(xs) THEN <<>> ELSE Ends(xs[k], s, p) \o AltEnds(xs, k + 1, s, p)

\* (x)* from p: one more x (an empty one is not repeated) and then (x)*,
\* and last no x at all.
StarOver(es, i, x, s, p) ==
    IF i > Len(es) THEN <<p>>
    ELSE (IF es[i] > p THEN Ends(Star(x), s, es[i]) ELSE <<>>)
         \o StarOver(es, i + 1, x, s, p)

\* The first position at or after from at which pattern n matches, -1 when
\* there is none.
MatchStart(n, s, from) ==
    SetMinOr({i \in from..Len(s) : Ends(n, s, i) # <<>>}, -1)

\* RegExp.prototype.exec for a pattern whose search starts at from: the
\* match as [index, end], index = -1 for no match.
Exec(n, s, from) ==
    Bind(MatchStart(n, s, from), LAMBDA i :
        IF i = -1 THEN [index |-> -1, end |-> -1]
        ELSE [index |-> i, end |-> Head(Ends(n, s, i))])

\* RegExp.prototype.test(s) of a RegExp with the given flags whose
\* lastIndex is li: [matched, lastIndex], lastIndex being the RegExp's
\* lastIndex after the call.  Without the g or y flag the search starts at
\* 0 and lastIndex is left alone; with it the search starts at lastIndex,
\* which becomes the end of the match, or 0 when there is none.
RegExpTest(n, flags, s, li) ==
    IF includes(flags, "g") \/ includes(flags, "y")
    THEN Bind(Exec(n, s, li), LAMBDA m :
             [matched |-> m.index # -1,
              lastIndex |-> IF m.index # -1 THEN m.end ELSE 0])
    ELSE [matched |-> MatchStart(n, s, 0) # -1, lastIndex |-> li]

\* String.prototype.match(re) for a RegExp with the g flag: all the
\* non-overlapping matches, in order of appearance (after an empty match
\* the search moves on by one character).
\* The matches are located in s and cut from src, a string of the same
\* length (s is src, or src in lower case for a pattern with the i flag).
RECURSIVE MatchAll(_, _, _, _)
MatchAll(n, s, src, from) ==
    Bind(Exec(n, s, from), LAMBDA m :
        IF m.index = -1 THEN <<>>
        ELSE <<SubSeq(src, m.index + 1, m.end)>>
             \o MatchAll(n, s, src, IF m.end = m.index THEN m.end + 1 ELSE m.end))

(***************************************************************************)
(* MESSAGE_RULES: the catalog of the message analyzer.  Alternatives that  *)
(* spell a Devanagari word are kept where all their code points are in     *)
(* DevanagariChars; an alternative with another code point can match no    *)
(* input of the model and is left out (marked <Devanagari> in the          *)
(* pattern quoted above each entry).                                       *)
(***************************************************************************)
\* MESSAGE_RULES.urgency.patterns
Patterns_urgency ==
    <<
      \* /\b(urgent|immediately|right now|act now|hurry|last chance|limited time|expires? today|don'?t delay|final notice|final warning|within 24 hours?|within 2 hours?|action required)\b/i
      WordsB(<<"urgent", "immediately", "right now", "act now", "hurry",
               "last chance", "limited time", "expires today",
               "expire today", "don't delay", "dont delay",
               "final notice", "final warning", "within 24 hours",
               "within 24 hour", "within 2 hours", "within 2 hour",
               "action required">>),
      \* /\b(<6 Devanagari alternatives>)\b/i; of these only U+0905 U+092D U+0940 can occur in an input
      WordsB(<<"~^|">>),
      \* /\b(jaldi|abhi|turant|fauran)\b/i
      WordsB(<<"jaldi", "abhi", "turant", "fauran">>)
    >>

\* MESSAGE_RULES.otp_kyc.patterns
Patterns_otp_kyc ==
    <<
      \* /\b(otp|kyc|verify|verification|cvv|pin|password|atm pin|upi pin|<Devanagari>)\b/i
      WordsB(<<"otp", "kyc", "verify", "verification", "cvv", "pin",
               "password", "atm pin", "upi pin">>),
      \* /\b(share|send|provide|enter|batao|bhejo).{0,20}(otp|code|pin)\b/i
      Gap(<<"share", "send", "provide", "enter", "batao", "bhejo">>, 20,
            <<"otp", "code", "pin">>),
      \* /\b(update|complete).{0,15}(kyc|pan|aadhar|aadhaar)\b/i
      Gap(<<"update", "complete">>, 15,
            <<"kyc", "pan", "aadhar", "aadhaar">>),
      \* /otp.{0,10}(hai|is|send|bhej)/i
      Cat(<<Lit("otp"), Rep("dot", 0, 10), Words(<<"hai", "is", "send", "bhej">>)>>)
    >>

\* MESSAGE_RULES.account_threat.patterns
Patterns_account_threat ==
    <<
      \* /\b(account|<Devanagari>|a\/c).{0,20}(block|suspend|close|deactivat|freeze|U+092C U+0902 U+0926|<Devanagari>|hold)\b/i
      Gap(<<"account", "a/c">>, 20,
            <<"block", "suspend", "close", "deactivat", "freeze", "[]<",
            "hold">>),
      \* /\b(block|suspend|deactivat|freeze).{0,20}(account|<Devanagari>|a\/c)\b/i
      Gap(<<"block", "suspend", "deactivat", "freeze">>, 20,
            <<"account", "a/c">>),
      \* /\b(service|card|upi).{0,15}(block|suspend|stop)\b/i
      Gap(<<"service", "card", "upi">>, 15,
            <<"block", "suspend", "stop">>),
      \* /\b(legal action|<Devanagari>|police complaint)\b/i
      WordsB(<<"legal action", "police complaint">>)
    >>

\* MESSAGE_RULES.lottery_reward.patterns
Patterns_lottery_reward ==
    <<
      \* /\b(congratulations|congrats|winner|won|lottery|prize|reward|gift|cash prize|<Devanagari>|U+091C U+0940 U+0924|badhai|mubarak)\b/i
      WordsB(<<"congratulations", "congrats", "winner", "won", "lottery",
               "prize", "reward", "gift", "cash prize", "{|}", "badhai",
               "mubarak">>),
      \* /\b(claim|collect|receive).{0,20}(prize|reward|money|amount)\b/i
      Gap(<<"claim", "collect", "receive">>, 20,
            <<"prize", "reward", "money", "amount">>),
      \* /\b(free|<Devanagari>|muft).{0,10}(gift|iphone|laptop|money|car|bike)\b/i
      Gap(<<"free", "muft">>, 10,
            <<"gift", "iphone", "laptop", "money", "car", "bike">>),
      \* /\b(lucky draw|spin wheel|scratch card)\b/i
      WordsB(<<"lucky draw", "spin wheel", "scratch card">>),
      \* /\b(selected|chosen).{0,15}(winner|prize)\b/i
      Gap(<<"selected", "chosen">>, 15,
            <<"winner", "prize">>),
      \* /<rupee>\s*\d{1,3}(,\d{3})*\s*(lakh|crore|cr|lac)/i
      Cat(<<Lit("$"), Rep("space", 0, -1), Rep("digit", 1, 3),
               Star(Cat(<<Lit(","), Rep("digit", 3, 3)>>)), Rep("space", 0, -1),
               Words(<<"lakh", "crore", "cr", "lac">>)>>)
    >>

\* MESSAGE_RULES.job_scam.patterns
Patterns_job_scam ==
    <<
      \* /\b(earn|income|salary|kamai|kamao).{0,20}(lakhs?|crores?|per day|daily|weekly|monthly|ghar baithe)\b/i
      Gap(<<"earn", "income", "salary", "kamai", "kamao">>, 20,
            <<"lakhs", "lakh", "crores", "crore", "per day", "daily",
            "weekly", "monthly", "ghar baithe">>),
      \* /\b(work from home|wfh|ghar se kaam).{0,20}(earn|income|money|kamai)\b/i
      Gap(<<"work from home", "wfh", "ghar se kaam">>, 20,
            <<"earn", "income", "money", "kamai">>),
      \* /\b(no interview|direct joining|immediate joining|part time job|typing job)\b/i
      WordsB(<<"no interview", "direct joining", "immediate joining",
               "part time job", "typing job">>),
      \* /\b(amazon|flipkart|meesho).{0,15}(job|work|partner)\b/i
      Gap(<<"amazon", "flipkart", "meesho">>, 15,
            <<"job", "work", "partner">>),
      \* /\bdata entry.{0,10}(job|work|earn)/i
      Cat(<<WB, Lit("data entry"), Rep("dot", 0, 10), Words(<<"job", "work", "earn">>)>>)
    >>

\* MESSAGE_RULES.authority.patterns
Patterns_authority ==
    <<
      \* /\b(rbi|reserve bank|income tax|it department|police|cyber cell|customs|ed|cbi|enforcement)\b/i
      WordsB(<<"rbi", "reserve bank", "income tax", "it department",
               "police", "cyber cell", "customs", "ed", "cbi",
               "enforcement">>),
      \* /\b(sbi|hdfc|icici|axis|kotak|pnb|bob|canara|union bank|paytm|phonepe|gpay|google pay)\b/i
      WordsB(<<"sbi", "hdfc", "icici", "axis", "kotak", "pnb", "bob",
               "canara", "union bank", "paytm", "phonepe", "gpay",
               "google pay">>),
      \* /\b(government|<Devanagari>|<Devanagari>|ministry).{0,20}(notice|warning|alert|message)\b/i
      Gap(<<"government", "ministry">>, 20,
            <<"notice", "warning", "alert", "message">>),
      \* /\b(customer care|helpline|support).{0,10}(number|no\.?)\b/i
      Gap(<<"customer care", "helpline", "support">>, 10,
            <<"number", "no.", "no">>)
    >>

\* MESSAGE_RULES.money_request.patterns
Patterns_money_request ==
    <<
      \* /\b(transfer|send|pay|bhejo|de do).{0,20}(money|amount|rs|<rupee>|rupees|paisa|paise)\b/i
      Gap(<<"transfer", "send", "pay", "bhejo", "de do">>, 20,
            <<"money", "amount", "rs", "$", "rupees", "paisa", "paise">>),
      \* /\b(processing fee|registration fee|advance payment|token money|booking amount)\b/i
      WordsB(<<"processing fee", "registration fee", "advance payment",
               "token money", "booking amount">>),
      \* /\b(pay|deposit).{0,15}(first|only|just).{0,10}(rs|<rupee>|\d)/i
      Cat(<<WB, Words(<<"pay", "deposit">>), Rep("dot", 0, 15),
               Words(<<"first", "only", "just">>), Rep("dot", 0, 10),
               Alt(<<Words(<<"rs", "$">>), Rep("digit", 1, 1)>>)>>),
      \* /\b(refund|cashback).{0,20}(pending|stuck|process)\b/i
      Gap(<<"refund", "cashback">>, 20,
            <<"pending", "stuck", "process">>),
      \* /upi.{0,10}(id|address|transfer)/i
      Cat(<<Lit("upi"), Rep("dot", 0, 10), Words(<<"id", "address", "transfer">>)>>)
    >>

\* MESSAGE_RULES.poor_grammar.patterns
Patterns_poor_grammar ==
    <<
      \* /(!!!|\?\?\?|\.\.\.\.+)/
      Alt(<<Words(<<"!!!", "???">>), Cat(<<Lit("..."), Rep("period", 1, -1)>>)>>),
      \* /\b(plz|pls|ur|u r|bcoz|coz|dis|dat|dnt|2day|2morrow|4u|asap)\b/i
      WordsB(<<"plz", "pls", "ur", "u r", "bcoz", "coz", "dis", "dat",
               "dnt", "2day", "2morrow", "4u", "asap">>),
      \* /dear\s+(customer|user|sir|madam|member)/i
      Cat(<<Lit("dear"), Rep("space", 1, -1),
               Words(<<"customer", "user", "sir", "madam", "member">>)>>)
    >>

\* MESSAGE_RULES.embedded_link.patterns
Patterns_embedded_link ==
    <<
      \* /https?:\/\/[^\s]+/i
      Cat(<<Words(<<"https://", "http://">>), Rep("nonspace", 1, -1)>>),
      \* /bit\.ly|tinyurl|short\.link|t\.co|goo\.gl/i
      Words(<<"bit.ly", "tinyurl", "short.link", "t.co", "goo.gl">>),
      \* /click\s+(here|now|below|link)/i
      Cat(<<Lit("click"), Rep("space", 1, -1),
               Words(<<"here", "now", "below", "link">>)>>)
    >>

\* MESSAGE_RULES.delivery_scam.patterns
Patterns_delivery_scam ==
    <<
      \* /\b(delivery|courier|parcel|package|shipment).{0,20}(failed|pending|hold|stuck|address)\b/i
      Gap(<<"delivery", "courier", "parcel", "package", "shipment">>, 20,
            <<"failed", "pending", "hold", "stuck", "address">>),
      \* /\b(bluedart|delhivery|dtdc|fedex|ecom express|india post).{0,15}(track|delivery)\b/i
      Gap(<<"bluedart", "delhivery", "dtdc", "fedex", "ecom express",
            "india post">>, 15,
            <<"track", "delivery">>),
      \* /track.{0,10}(order|shipment|parcel)/i
      Cat(<<Lit("track"), Rep("dot", 0, 10), Words(<<"order", "shipment", "parcel">>)>>)
    >>

\* MESSAGE_RULES.loan_scam.patterns
Patterns_loan_scam ==
    <<
      \* /\b(instant loan|personal loan|loan approved|pre.?approved loan)\b/i
      Cat(<<WB, Alt(<<Words(<<"instant loan", "personal loan", "loan approved">>),
                     Cat(<<Lit("pre"), Rep("dot", 0, 1), Lit("approved loan")>>)>>), WB>>),
      \* /\b(loan).{0,15}(<rupee>|rs|lakh|crore)\b/i
      Gap(<<"loan">>, 15,
            <<"$", "rs", "lakh", "crore">>),
      \* /\b(no document|without document|bina document)\b/i
      WordsB(<<"no document", "without document", "bina document">>),
      \* /\b(low interest|0% interest|zero interest)\b/i
      WordsB(<<"low interest", "0% interest", "zero interest">>)
    >>

\* MESSAGE_RULES.investment_scam.patterns
Patterns_investment_scam ==
    <<
      \* /\b(invest|trading|crypto|bitcoin|stock).{0,15}(earn|return|profit|double)\b/i
      Gap(<<"invest", "trading", "crypto", "bitcoin", "stock">>, 15,
            <<"earn", "return", "profit", "double">>),
      \* /\b(double|triple).{0,10}(money|investment|amount)\b/i
      Gap(<<"double", "triple">>, 10,
            <<"money", "investment", "amount">>),
      \* /\b(guaranteed|100%|assured).{0,10}(return|profit)\b/i
      Gap(<<"guaranteed", "100%", "assured">>, 10,
            <<"return", "profit">>),
      \* /\b(forex|binary option|mlm|network marketing)\b/i
      WordsB(<<"forex", "binary option", "mlm", "network marketing">>)
    >>

\* MESSAGE_RULES.whatsapp_forward.patterns
Patterns_whatsapp_forward ==
    <<
      \* /\b(forward|share).{0,15}(10|20|100|groups?|contacts?|friends?)\b/i
      Gap(<<"forward", "share">>, 15,
            <<"10", "20", "100", "groups", "group", "contacts", "contact",
            "friends", "friend">>),
      \* /\b(whatsapp|telegram).{0,10}(forward|share)\b/i
      Gap(<<"whatsapp", "telegram">>, 10,
            <<"forward", "share">>),
      \* /\b(viral|trending|breaking).{0,10}(news|alert)\b/i
      Gap(<<"viral", "trending", "breaking">>, 10,
            <<"news", "alert">>)
    >>

\* The catalog, in the order of Object.entries(MESSAGE_RULES).
MESSAGE_RULES ==
    <<
      [name |-> "urgency", patterns |-> Patterns_urgency,
       weight |-> 18, flag |-> "urgency_pressure"],
      [name |-> "otp_kyc", patterns |-> Patterns_otp_kyc,
       weight |-> 25, flag |-> "otp_kyc_request"],
      [name |-> "account_threat", patterns |-> Patterns_account_threat,
       weight |-> 22, flag |-> "account_threat"],
      [name |-> "lottery_reward", patterns |-> Patterns_lottery_reward,
       weight |-> 25, flag |-> "lottery_reward_bait"],
      [name |-> "job_scam", patterns |-> Patterns_job_scam,
       weight |-> 22, flag |-> "suspicious_job_offer"],
      [name |-> "authority", patterns |-> Patterns_authority,
       weight |-> 18, flag |-> "authority_impersonation"],
      [name |-> "money_request", patterns |-> Patterns_money_request,
       weight |-> 22, flag |-> "money_request"],
      [name |-> "poor_grammar", patterns |-> Patterns_poor_grammar,
       weight |-> 10, flag |-> "poor_grammar"],
      [name |-> "embedded_link", patterns |-> Patterns_embedded_link,
       weight |-> 12, flag |-> "contains_link"],
      [name |-> "delivery_scam", patterns |-> Patterns_delivery_scam,
       weight |-> 18, flag |-> "delivery_scam"],
      [name |-> "loan_scam", patterns |-> Patterns_loan_scam,
       weight |-> 20, flag |-> "loan_scam"],
      [name |-> "investment_scam", patterns |-> Patterns_investment_scam,
       weight |-> 25, flag |-> "investment_scam"],
      [name |-> "whatsapp_forward", patterns |-> Patterns_whatsapp_forward,
       weight |-> 12, flag |-> "chain_message"]
    >>


\* Every pattern with the g flag besides i: test() would then move lastIndex.
PatternFlagsGlobal(r, k) == "gi"

\* The flags of the RegExp literal MESSAGE_RULES[r].patterns[k]: every
\* pattern of the catalog is written /.../i, but the first of poor_grammar,
\* which has no flag; none has the g or the y flag.
PatternFlags(r, k) == IF r = 8 /\ k = 1 THEN "" ELSE "i"

\* The lastIndex of every RegExp object of the catalog when the module is
\* loaded.  The RegExp objects are created once and shared by all calls.
NoLastIndex ==
    [r \in 1..Len(MESSAGE_RULES) |-> [k \in 1..Len(MESSAGE_RULES[r].patterns) |-> 0]]

(***************************************************************************)
(* Input handler.                                                          *)
(***************************************************************************)
normalizeInput(text) == CollapseFrom(trim(text), 1)

\* urlPattern of extractUrls (flags gi).
ExtractUrlPattern ==
    Alt(<<Cat(<<Words(<<"https://", "http://">>), Rep("nonspace", 1, -1)>>),
          Cat(<<Lit("www."), Rep("nonspace", 1, -1)>>),
          Cat(<<Lit("bit.ly/"), Rep("nonspace", 1, -1)>>),
          Cat(<<Lit("tinyurl.com/"), Rep("nonspace", 1, -1)>>),
          Cat(<<WB, Rep("hostdot", 1, -1), Lit("."),
                Words(<<"com", "org", "net", "in", "io", "co", "xyz", "top",
                        "click", "info", "ly", "tk", "ml", "ga", "cf", "gq">>),
                WB>>)>>)

\* text.match(urlPattern) || []: the matches are found without regard to
\* case and cut from text as it is.
extractUrls(text) == MatchAll(ExtractUrlPattern, toLowerCase(text), text, 0)

\* phonePattern of extractPhones (flag g): /[+]?[0-9]{10,13}/
ExtractPhonePattern == Cat(<<Rep("plus", 0, 1), Rep("digit", 10, 13)>>)

extractPhones(text) ==
    Bind(StripFrom(text, 1, SpaceChars \cup {"-"}), LAMBDA cleaned :
        MatchAll(ExtractPhonePattern, cleaned, cleaned, 0))


(***************************************************************************)
(* new URL(u): the URL parser of the runtime (WHATWG URL), as far as       *)
(* analyzeUrl reads its result: whether parsing succeeds, hostname, and    *)
(* pathname + search.  Modelled for the URLs of the model, which hold no   *)
(* backslash, no percent escape in the host, no dot segment in the path,   *)
(* no IPv6 literal, no IPv4 part written in octal or hexadecimal, and no   *)
(* scheme but http and https before the first colon of a string that       *)
(* starts with http.  The                                                  *)
(* Punycode digits of a label with a character outside ASCII are not       *)
(* computed: the label becomes xn--, its ASCII characters, and the fixed   *)
(* digits of PunycodeTail.                                                 *)
(***************************************************************************)
\* Whether every character of s is in cs.
AllIn(s, cs) == SkipAll(s, 1, cs) > Len(s)

\* s from index i on.
From(s, i) == Slice(s, i, Len(s))

\* The number of characters of s from character i on that are in cs.
CountIn(s, i, cs) == Cardinality({j \in i..Len(s) : At(s, j) \in cs})

\* s.split(sep).length for a separator of one character.
SplitLength(s, sep) == CountIn(s, 1, {sep}) + 1

\* s.split(sep)[0] for a separator of one character.
SplitFirst(s, sep) == Slice(s, 1, IndexOfAny(s, 1, {sep}) - 1)

DigitValue(c) ==
    CASE c = "0" -> 0 [] c = "1" -> 1 [] c = "2" -> 2 [] c = "3" -> 3
      [] c = "4" -> 4 [] c = "5" -> 5 [] c = "6" -> 6 [] c = "7" -> 7
      [] c = "8" -> 8 [] c = "9" -> 9

DigitChar(d) ==
    CASE d = 0 -> "0" [] d = 1 -> "1" [] d = 2 -> "2" [] d = 3 -> "3"
      [] d = 4 -> "4" [] d = 5 -> "5" [] d = 6 -> "6" [] d = 7 -> "7"
      [] d = 8 -> "8" [] d = 9 -> "9"

\* The decimal numeral of a natural number.
RECURSIVE NatToString(_)
NatToString(n) ==
    IF n < 10 THEN DigitChar(n) ELSE NatToString(n \div 10) \o DigitChar(n % 10)

\* Long division of the decimal numeral ds by 256, digit by digit, so that
\* no number of the model grows beyond four digits: the quotient (a
\* numeral of the same length) and the remainder.
RECURSIVE DivMod256(_, _, _)
DivMod256(ds, i, rem) ==
    IF i > Len(ds) THEN [quot |-> "", rem |-> rem]
    ELSE Bind(rem * 10 + DigitValue(At(ds, i)), LAMBDA cur :
         Bind(DivMod256(ds, i + 1, cur % 256), LAMBDA rest :
             [quot |-> DigitChar(cur \div 256) \o rest.quot, rem |-> rest.rem]))

\* The n low bytes of the number written ds, the highest first, and whether
\* the number fits in them.
RECURSIVE LowBytes(_, _)
LowBytes(ds, n) ==
    IF n = 0 THEN [bytes |-> <<>>, fits |-> AllIn(ds, {"0"})]
    ELSE Bind(DivMod256(ds, 1, 0), LAMBDA d :
         Bind(LowBytes(d.quot, n - 1), LAMBDA high :
             [bytes |-> Append(high.bytes, d.rem), fits |-> high.fits]))

\* The parts of a host between its dots, as a sequence of strings.
RECURSIVE SplitDots(_, _)
SplitDots(s, i) ==
    Bind(IndexOfAny(s, i, {"."}), LAMBDA j :
        IF j > Len(s) THEN <<From(s, i)>>
        ELSE <<Slice(s, i, j - 1)>> \o SplitDots(s, j + 1))

RECURSIVE JoinDots(_, _)
JoinDots(parts, i) ==
    IF i > Len(parts) THEN ""
    ELSE parts[i] \o (IF i < Len(parts) THEN "." ELSE "") \o JoinDots(parts, i + 1)

\* The IPv4 parser on a host whose last part is a number: the host in
\* dotted-decimal form, "" for a failure (more than four parts, a part
\* that is no number, a part that does not fit).
IsNumber(x) == x # "" /\ AllIn(x, Digit)

\* The parts of a host with a last empty part left out.
HostParts(all) ==
    IF Len(all) > 1 /\ all[Len(all)] = "" THEN SubSeq(all, 1, Len(all) - 1) ELSE all

ParseIPv4(host) ==
    Bind(HostParts(SplitDots(host, 1)), LAMBDA parts :
    Bind(Len(parts), LAMBDA n :
        IF n > 4 \/ \E i \in 1..n : ~IsNumber(parts[i]) THEN ""
        ELSE Bind(LowBytes(parts[n], 5 - n), LAMBDA low :
             Bind([i \in 1..(n - 1) |-> LowBytes(parts[i], 1)], LAMBDA byte :
                 IF ~low.fits \/ \E i \in 1..(n - 1) : ~byte[i].fits THEN ""
                 ELSE JoinDots([i \in 1..4 |->
                                  NatToString(IF i < n THEN byte[i].bytes[1]
                                              ELSE low.bytes[i - n + 1])], 1)))))

\* Whether the last part of a host (a last empty part aside) is a number.
EndsInNumber(host) ==
    Bind(HostParts(SplitDots(host, 1)), LAMBDA parts : IsNumber(parts[Len(parts)]))

\* The forbidden domain code points, among the characters of the model.
ForbiddenHostChars == {" ", "#", "/", ":", ">", "?", "@", "%"}

\* The digits that stand for the Punycode encoding of the characters of a
\* label that are not ASCII.
PunycodeTail == "p1a"

\* The labels written in Punycode that the URLs of the model hold; the
\* parser fails on a label xn--... that does not decode.
KnownPunycode == {"xn--80ak6aa92e"}

\* domain-to-ASCII of one label: "" for a failure.
LabelToAscii(label) ==
    Bind(toLowerCase(label), LAMBDA lower :
    Bind(StripFrom(lower, 1, NonAscii), LAMBDA basic :
        IF startsWith(lower, "xn--")
        THEN IF lower \in KnownPunycode THEN lower ELSE ""
        ELSE IF basic = lower THEN lower
        ELSE "xn--" \o basic \o (IF basic = "" THEN "" ELSE "-") \o PunycodeTail))

\* The host parser for a special scheme: "" for a failure.
ParseHost(host) ==
    Bind(SplitDots(host, 1), LAMBDA parts :
    Bind([i \in 1..Len(parts) |-> LabelToAscii(parts[i])], LAMBDA ascii :
    Bind(JoinDots(ascii, 1), LAMBDA name :
        IF host = "" \/ \E i \in 1..Len(host) : At(host, i) \in ForbiddenHostChars
        THEN ""
        ELSE IF \E i \in 1..Len(parts) : parts[i] # "" /\ ascii[i] = "" THEN ""
        ELSE IF EndsInNumber(name) THEN ParseIPv4(name)
        ELSE name)))

\* A port: digits, at most 65535.
ValidPort(port) ==
    /\ AllIn(port, Digit)
    /\ \E d \in {From(port, SkipAll(port, 1, {"0"}))} :
           Len(d) <= 5 /\ (Len(d) = 5 =>
              \E hi \in {DigitValue(At(d, 1)) * 100 + DigitValue(At(d, 2)) * 10
                             + DigitValue(At(d, 3))} :
                  hi < 655 \/ (hi = 655 /\ DigitValue(At(d, 4)) * 10
                                              + DigitValue(At(d, 5)) <= 35))

\* The percent-encoding of a path or query from character i on.
EncodePath(s, i) == MapChars(s, i, Len(s), "encode", {})

\* new URL(u): [ok, hostname, pathname, search]; ok = FALSE when the
\* constructor throws.
UrlFailure == [ok |-> FALSE, hostname |-> "", pathname |-> "", search |-> ""]

ParseUrl(u) ==
    Bind(StripFrom(trim(u), 1, {"\t", "\n"}), LAMBDA str :
    Bind(IndexOfAny(str, 1, {":"}), LAMBDA colon :
    \* after the scheme of http and https any number of slashes
    Bind(SkipAll(str, colon + 1, {"/"}), LAMBDA start :
    Bind(IndexOfAny(str, start, {"/", "?", "#"}), LAMBDA authEnd :
    Bind(Slice(str, start, authEnd - 1), LAMBDA auth :
    Bind(From(auth, LastIndexOfAny(auth, Len(auth), {"@"}) + 1), LAMBDA hostport :
    Bind(IndexOfAny(hostport, 1, {":"}), LAMBDA pcolon :
    Bind(ParseHost(Slice(hostport, 1, pcolon - 1)), LAMBDA host :
    Bind(IndexOfAny(str, authEnd, {"#"}), LAMBDA hash :
    Bind(IndexOfAny(str, authEnd, {"?", "#"}), LAMBDA query :
    Bind(Slice(str, authEnd, query - 1), LAMBDA path :
    Bind(Slice(str, query, hash - 1), LAMBDA search :
        IF colon > Len(str)
           \/ toLowerCase(Slice(str, 1, colon - 1)) \notin {"http", "https"}
        THEN UrlFailure
        ELSE IF host = "" \/ ~ValidPort(From(hostport, pcolon + 1)) THEN UrlFailure
        ELSE [ok |-> TRUE, hostname |-> host,
              pathname |-> IF path = "" THEN "/" ELSE EncodePath(path, 1),
              search |-> IF Len(search) <= 1 THEN "" ELSE EncodePath(search, 1)]
    ))))))))))))


(***************************************************************************)
(* URL and phone rules, risk level.                                        *)
(***************************************************************************)
SUSPICIOUS_TLDS ==
    <<".xyz", ".top", ".click", ".info", ".tk", ".ml", ".ga", ".cf", ".gq",
      ".buzz", ".work", ".loan">>

URL_SHORTENERS ==
    <<"bit.ly", "tinyurl.com", "short.link", "goo.gl", "t.co", "ow.ly",
      "is.gd", "buff.ly">>

KNOWN_BRANDS ==
    <<"google", "facebook", "amazon", "flipkart", "paytm", "phonepe", "gpay",
      "sbi", "hdfc", "icici", "axis", "netflix", "whatsapp", "instagram">>

SUSPICIOUS_PATH_TOKENS ==
    <<"verify", "confirm", "login", "secure", "account", "update", "bank",
      "payment", "refund", "prize", "claim", "click", "authenticate",
      "signin", "token">>

FOREIGN_CODES == <<"+1", "+44", "+234", "+233", "+254", "+880", "+92">>

DeleetFrom(s, i) == MapChars(s, i, Len(s), "deleet", {})

deleet(s) == DeleetFrom(s, 1)

calculateRiskLevelStrict(score) ==
    IF score < 30 THEN "safe" ELSE IF score < 60 THEN "suspicious" ELSE "high_risk"

calculateRiskLevel(score) ==
    IF score <= 30 THEN "safe" ELSE IF score <= 60 THEN "suspicious" ELSE "high_risk"

ClampWrapped(riskScore) == riskScore % 101

\* Math.min(riskScore, 100) of the return statements.
ClampScore(riskScore) == Min(riskScore, 100)

\* The accumulators of an analyzer: riskScore (the raw total), flags and
\* details.  Add is `riskScore += points; flags.push(flag);
\* details.push({rule, flag, points})'.
NoFindings == [riskScore |-> 0, flags |-> <<>>, details |-> <<>>]

AddScoreTwice(acc, rule, flag, points) ==
    [riskScore |-> acc.riskScore + 2 * points,
     flags     |-> Append(acc.flags, flag),
     details   |-> Append(acc.details, [rule |-> rule, flag |-> flag, points |-> points])]

Add(acc, rule, flag, points) ==
    [riskScore |-> acc.riskScore + points,
     flags     |-> Append(acc.flags, flag),
     details   |-> Append(acc.details, [rule |-> rule, flag |-> flag, points |-> points])]

\* `if (cond) { riskScore += points; flags.push(flag); details.push(...) }'
AddIf(cond, acc, rule, flag, points) ==
    IF cond THEN Add(acc, rule, flag, points) ELSE acc

\* flags.includes(flag)
HasFlagNever(flags, flag) == FALSE

HasFlag(flags, flag) == \E i \in 1..Len(flags) : flags[i] = flag

\* Whether some element of the tuple ws satisfies the check named kind on s.
AnyOf(ws, kind, s) ==
    \E i \in 1..Len(ws) :
        CASE kind = "endsWith"   -> endsWith(s, ws[i])
          [] kind = "includes"   -> includes(s, ws[i])
          [] kind = "startsWith" -> startsWith(s, ws[i])

BrandSpoofedAsWritten(domain) ==
    \E i \in 1..Len(KNOWN_BRANDS) :
        \E brand \in {KNOWN_BRANDS[i]} :
            /\ includes(domain, brand)
            /\ ~AnyOf(<<brand \o ".com", brand \o ".in", brand \o ".co.in",
                        brand \o ".org">>, "endsWith", domain)

\* The brand-spoofing loop of analyzeUrl: whether some brand that occurs in
\* the domain, as written or de-leeted, is not on one of its official
\* domains.
BrandSpoofed(domain) ==
    \E i \in 1..Len(KNOWN_BRANDS) :
        \E brand \in {KNOWN_BRANDS[i]} :
            /\ includes(domain, brand) \/ includes(deleet(domain), brand)
            /\ ~AnyOf(<<brand \o ".com", brand \o ".in", brand \o ".co.in",
                        brand \o ".org">>, "endsWith", domain)

\* The suspicious-path-token loop of analyzeUrl from token i on: every
\* token found adds 12, the first also the flag and the details entry.
RECURSIVE PathTokens(_, _, _)
PathTokensAllFlagged(acc, combinedPath, i) ==
    IF i > Len(SUSPICIOUS_PATH_TOKENS) THEN acc
    ELSE IF includes(combinedPath, SUSPICIOUS_PATH_TOKENS[i])
         THEN PathTokens(Add(acc, "suspicious_path", "suspicious_path_token", 12),
                         combinedPath, i + 1)
         ELSE PathTokens(acc, combinedPath, i + 1)

PathTokens(acc, combinedPath, i) ==
    IF i > Len(SUSPICIOUS_PATH_TOKENS) THEN acc
    ELSE IF includes(combinedPath, SUSPICIOUS_PATH_TOKENS[i])
         THEN PathTokens(IF HasFlag(acc.flags, "suspicious_path_token")
                         THEN [acc EXCEPT !.riskScore = @ + 12]
                         ELSE Add(acc, "suspicious_path", "suspicious_path_token", 12),
                         combinedPath, i + 1)
         ELSE PathTokens(acc, combinedPath, i + 1)

\* The last check of analyzeUrl: a domain with characters outside
\* [a-z0-9.-], when nothing else was flagged.
WeirdChars(acc, domain) ==
    AddIf(/\ Len(acc.flags) = 0
          /\ domain # ""
          /\ SplitLength(domain, ".") >= 2
          /\ ~AllIn(toLowerCase(domain), Lower \cup Digit \cup {".", "-"}),
          acc, "weird_chars", "weird_domain_chars", 6)

\* /https?:\/\/\d{1,3}\.\d{1,3}\.\d{1,3}\.\d{1,3}/
IpUrlPattern ==
    Cat(<<Words(<<"https://", "http://">>), Rep("digit", 1, 3), Lit("."),
          Rep("digit", 1, 3), Lit("."), Rep("digit", 1, 3), Lit("."),
          Rep("digit", 1, 3)>>)

\* The checks of analyzeUrl in source order, on the URL, its lower-cased
\* form, the domain and the path with its query string.
UrlChecks(url, urlLower, domain, pathname) ==
    LET a1  == AddIf(MatchStart(IpUrlPattern, urlLower, 0) # -1,
                     NoFindings, "ip_based", "ip_based_url", 25)
        a2  == AddIf(includes(domain, "xn--"), a1, "punycode", "punycode_domain", 20)
        a3  == AddIf(includes(urlLower, "@"), a2, "userinfo", "userinfo_in_url", 18)
        a4  == AddIf(startsWith(urlLower, "http://") /\ ~startsWith(urlLower, "https://"),
                     a3, "no_https", "no_https", 8)
        a5  == AddIf(AnyOf(SUSPICIOUS_TLDS, "endsWith", domain),
                     a4, "suspicious_tld", "suspicious_tld", 18)
        a6  == AddIf(AnyOf(URL_SHORTENERS, "includes", domain),
                     a5, "shortener", "url_shortener", 15)
        a7  == AddIf(BrandSpoofed(domain), a6, "brand_spoof", "brand_spoofing", 22)
        a8  == PathTokens(a7, pathname \o " " \o urlLower, 1)
        a9  == AddIf(SplitLength(domain, ".") - 2 >= 3,
                     a8, "many_subdomains", "excessive_subdomains", 12)
        a10 == AddIf(Len(url) > 100, a9, "long_url", "suspicious_long_url", 10)
        a11 == AddIf(MatchStart(Rep("loweralnum", 15, -1), urlLower, 0) # -1,
                     a10, "random_string", "random_string_url", 12)
    IN  WeirdChars(a11, domain)

UrlParsedNoFallback(url, parsed) ==
    UrlChecks(url, toLowerCase(url),
              IF parsed.ok THEN parsed.hostname ELSE "",
              IF parsed.ok THEN parsed.pathname \o parsed.search ELSE "")

\* `try { parsed = new URL(...); domain = parsed.hostname; pathname = ... }
\*  catch { domain = url.split('/')[0] }', then the checks.
UrlParsed(url, parsed) ==
    UrlChecks(url, toLowerCase(url),
              IF parsed.ok THEN parsed.hostname ELSE SplitFirst(url, "/"),
              IF parsed.ok THEN parsed.pathname \o parsed.search ELSE "")

\* The body of analyzeUrl up to its return statement: the accumulators.
analyzeUrlFindings(url) ==
    UrlParsed(url, ParseUrl(IF startsWith(url, "http") THEN url ELSE "http://" \o url))

\* The result an analyzer returns for its accumulators.
Result(acc) ==
    [riskScore |-> ClampScore(acc.riskScore),
     riskLevel |-> calculateRiskLevel(ClampScore(acc.riskScore)),
     flags     |-> acc.flags,
     details   |-> acc.details]

analyzeUrl(url) == Result(analyzeUrlFindings(url))

\* new Set(s).size: the number of different characters of s.
DistinctChars(s) == Cardinality({At(s, i) : i \in 1..Len(s)})

\* /(\d)\1{4,}/: a digit and four or more repetitions of it.
HasDigitRun(s) ==
    \E p \in 0..(Len(s) - 5) :
        At(s, p + 1) \in Digit /\ \A j \in 2..5 : At(s, p + j) = At(s, p + 1)

ForeignCodeAnyPlus(cleanPhone) == startsWith(cleanPhone, "+")

\* The loop over FOREIGN_CODES: whether the number starts with one of them.
ForeignCode(cleanPhone) == AnyOf(FOREIGN_CODES, "startsWith", cleanPhone)

\* The body of analyzePhone up to its return statement: the accumulators.
analyzePhoneFindings(phone) ==
    Bind(StripFrom(phone, 1, SpaceChars \cup {"-", "(", ")"}), LAMBDA cleanPhone :
    Bind(DigitsFrom(cleanPhone, 1), LAMBDA digitsOnly :
    Bind(AddIf(ForeignCode(cleanPhone),
               NoFindings, "foreign_code", "foreign_country_code", 15), LAMBDA a1 :
    Bind(AddIf(Len(digitsOnly) < 10 \/ Len(digitsOnly) > 15,
               a1, "length_issue", "suspicious_number_length", 12), LAMBDA a2 :
    Bind(AddIf(Len(digitsOnly) = 10 /\ At(digitsOnly, 1) \notin {"6", "7", "8", "9"},
               a2, "invalid_pattern", "invalid_number_pattern", 20), LAMBDA a3 :
    Bind(AddIf(DistinctChars(From(digitsOnly, Max(1, Len(digitsOnly) - 9))) <= 2,
               a3, "repeated_digits", "suspicious_repeated_digits", 15), LAMBDA a4 :
        AddIf(HasDigitRun(digitsOnly) /\ ~HasFlag(a4.flags, "suspicious_repeated_digits"),
              a4, "repeated_sequence", "suspicious_repeated_digits", 12)
    ))))))

analyzePhone(phone) == Result(analyzePhoneFindings(phone))


(***************************************************************************)
(* Type and language detection.                                            *)
(***************************************************************************)
\* urlPattern of detectInputType (flag i).
UrlShapePattern ==
    Alt(<<Cat(<<Bol, Words(<<"https://", "http://">>), Rep("nonspace", 1, -1)>>),
          Cat(<<Bol, Lit("www."), Rep("nonspace", 1, -1)>>),
          Cat(<<Bol, Rep("host", 1, -1), Lit("."),
                Words(<<"com", "org", "net", "xyz", "top", "click", "info",
                        "co", "in", "io", "ly", "tk", "ml", "ga", "cf", "gq",
                        "bit.ly", "tinyurl">>)>>)>>)

\* phonePattern of detectInputType: /^[+]?[0-9\s\-()]{10,}$/
PhoneShapePattern == Cat(<<Bol, Rep("plus", 0, 1), Rep("phone", 10, -1), Eol>>)

detectInputType(text) ==
    Bind(trim(text), LAMBDA trimmed :
        IF Ends(UrlShapePattern, toLowerCase(trimmed), 0) # <<>> THEN "url"
        ELSE IF Ends(PhoneShapePattern, StripFrom(trimmed, 1, SpaceChars), 0) # <<>>
             THEN "phone"
        ELSE "message")

detectLanguageMajority(text) ==
    Bind(CountIn(text, 1, DevanagariChars), LAMBDA hindiChars :
    Bind(CountIn(text, 1, Lower \cup Upper), LAMBDA englishChars :
        IF hindiChars > englishChars THEN "hindi" ELSE "english"))

detectLanguage(text) ==
    Bind(CountIn(text, 1, DevanagariChars), LAMBDA hindiChars :
    Bind(CountIn(text, 1, Lower \cup Upper), LAMBDA englishChars :
        IF hindiChars + englishChars = 0 THEN "english"
        ELSE IF hindiChars > englishChars THEN "hindi"
        ELSE IF hindiChars > 0 /\ englishChars > 0 THEN "hinglish"
        ELSE "english"))

(***************************************************************************)
(* The message analyzer.  Its rule patterns are RegExp objects shared by   *)
(* all calls, so the analyzer reads and writes their lastIndex: it takes   *)
(* the lastIndex of every pattern and returns them with its findings.      *)
(***************************************************************************)
\* The loop over MESSAGE_RULES.  A call tests the patterns of a rule in
\* order up to the first that matches, and each pattern at most once:
\* Tested(r, k) is the outcome of the test of pattern k of rule r, were it
\* made, and FirstMatch(r) the pattern at which the inner loop breaks (0:
\* no pattern of the rule matches).
Tested(r, k, textLower, li) ==
    RegExpTest(MESSAGE_RULES[r].patterns[k], PatternFlags(r, k), textLower,
               li[r][k])

FirstMatch(r, textLower, li) ==
    SetMinOr({k \in 1..Len(MESSAGE_RULES[r].patterns) :
                 Tested(r, k, textLower, li).matched}, 0)

RuleMatchedPerPattern(acc, rule) ==
    [riskScore |-> acc.riskScore + rule.weight * Len(rule.patterns),
     flags     |-> IF HasFlag(acc.flags, rule.flag) THEN acc.flags
                   ELSE Append(acc.flags, rule.flag),
     details   |-> IF HasFlag(acc.flags, rule.flag) THEN acc.details
                   ELSE Append(acc.details,
                               [rule |-> rule.name, flag |-> rule.flag,
                                points |-> rule.weight])]

RuleMatchedFlagOnly(acc, rule) ==
    [riskScore |-> acc.riskScore,
     flags     |-> IF HasFlag(acc.flags, rule.flag) THEN acc.flags
                   ELSE Append(acc.flags, rule.flag),
     details   |-> acc.details]

\* The rules from rule r on, first being the table of FirstMatch: a rule
\* with a match adds its weight and, unless flags has it, its flag and
\* its details entry.
RuleMatched(acc, rule) ==
    [riskScore |-> acc.riskScore + rule.weight,
     flags     |-> IF HasFlag(acc.flags, rule.flag) THEN acc.flags
                   ELSE Append(acc.flags, rule.flag),
     details   |-> IF HasFlag(acc.flags, rule.flag) THEN acc.details
                   ELSE Append(acc.details,
                               [rule |-> rule.name, flag |-> rule.flag,
                                points |-> rule.weight])]

RECURSIVE RuleLoop(_, _, _)
RuleLoop(r, first, acc) ==
    IF r > Len(MESSAGE_RULES) THEN acc
    ELSE RuleLoop(r + 1, first,
                  IF first[r] = 0 THEN acc ELSE RuleMatched(acc, MESSAGE_RULES[r]))

\* The lastIndex of the patterns after the loop: that of a tested pattern
\* is what its test left.
TestedLastIndex(first, textLower, li) ==
    [r \in 1..Len(MESSAGE_RULES) |->
        [k \in 1..Len(MESSAGE_RULES[r].patterns) |->
            IF first[r] = 0 \/ k <= first[r]
            THEN Tested(r, k, textLower, li).lastIndex
            ELSE li[r][k]]]

\* `for (const flag of result.flags) if (!flags.includes(flag))
\* flags.push(flag)' from flag i of more on.
RECURSIVE MergeFlags(_, _, _)
MergeFlags(flags, more, i) ==
    IF i > Len(more) THEN flags
    ELSE MergeFlags(IF HasFlag(flags, more[i]) THEN flags ELSE Append(flags, more[i]),
                    more, i + 1)

\* The body of the loop over the embedded URLs: half the URL's score, at
\* most 30, and its flags.  No details entry is pushed.
EmbeddedUrl(acc, urlResult) ==
    [acc EXCEPT !.riskScore = @ + Min(urlResult.riskScore \div 2, 30),
                !.flags = MergeFlags(@, urlResult.flags, 1)]

\* The loop over urls.slice(0, 2) from url i on.
RECURSIVE EmbeddedUrls(_, _, _)
EmbeddedUrlsAll(acc, urls, i) ==
    IF i > Len(urls) THEN acc
    ELSE EmbeddedUrls(EmbeddedUrl(acc, analyzeUrl(urls[i])), urls, i + 1)

EmbeddedUrls(acc, urls, i) ==
    IF i > Min(Len(urls), 2) THEN acc
    ELSE EmbeddedUrls(EmbeddedUrl(acc, analyzeUrl(urls[i])), urls, i + 1)

\* The body of the loop over the embedded phones: a third of the phone's
\* score, at most 15, and its flags.  No details entry is pushed.
EmbeddedPhone(acc, phoneResult) ==
    [acc EXCEPT !.riskScore = @ + Min(phoneResult.riskScore \div 3, 15),
                !.flags = MergeFlags(@, phoneResult.flags, 1)]

\* The loop over phones.slice(0, 2) from phone i on.
RECURSIVE EmbeddedPhones(_, _, _)
EmbeddedPhones(acc, phones, i) ==
    IF i > Min(Len(phones), 2) THEN acc
    ELSE EmbeddedPhones(EmbeddedPhone(acc, analyzePhone(phones[i])), phones, i + 1)

\* The three loops of analyzeMessage in source order, on the extracted
\* urls and phones and the table of FirstMatch.
MessageLoops(urls, phones, first, tested) ==
    EmbeddedPhones(EmbeddedUrls(RuleLoop(1, first, NoFindings), urls, 1), phones, 1)
        @@ [urls |-> urls, phones |-> phones, lastIndex |-> tested]

MessageTested(urls, phones, textLower, first, li) ==
    MessageLoops(urls, phones, first, TestedLastIndex(first, textLower, li))

MessageLower(text, textLower, li) ==
    MessageTested(extractUrls(text), extractPhones(text), textLower,
                  [r \in 1..Len(MESSAGE_RULES) |-> FirstMatch(r, textLower, li)],
                  li)

\* The body of analyzeMessage up to its return statement: the accumulators,
\* the extracted urls and phones, and the lastIndex of the patterns.
analyzeMessageFindings(text, li) == MessageLower(text, toLowerCase(text), li)

\* The result of analyzeMessage for its findings.
MessageResult(acc) ==
    Result(acc) @@ [embeddedUrls |-> acc.urls, embeddedPhones |-> acc.phones]

analyzeMessage(text, li) == MessageResult(analyzeMessageFindings(text, li))

(***************************************************************************)
(* Fallback explanation.  The three headlines start with a pictograph in   *)
(* the source, which is left out here.                                     *)
(***************************************************************************)
FLAG_DESCRIPTIONS ==
    [urgency_pressure |-> "Contains urgent language designed to pressure quick decisions",
     otp_kyc_request |-> "Requests sensitive information like OTP or KYC details",
     account_threat |-> "Threatens account suspension or blocking",
     lottery_reward_bait |-> "Promises prizes, rewards, or lottery winnings",
     suspicious_job_offer |-> "Offers suspicious job with unrealistic earnings",
     authority_impersonation |-> "May be impersonating banks or government",
     money_request |-> "Requests money transfer or payment",
     poor_grammar |-> "Contains suspicious grammar patterns",
     contains_link |-> "Contains links that need verification",
     ip_based_url |-> "URL uses IP address instead of domain name",
     suspicious_tld |-> "Uses suspicious domain extension",
     url_shortener |-> "Uses URL shortener to hide actual destination",
     brand_spoofing |-> "May be impersonating a known brand",
     excessive_subdomains |-> "Has suspicious number of subdomains",
     suspicious_long_url |-> "Unusually long URL",
     random_string_url |-> "Contains random characters in URL",
     foreign_country_code |-> "Phone number from foreign country",
     invalid_number_pattern |-> "Invalid phone number pattern",
     suspicious_number_length |-> "Suspicious phone number length",
     suspicious_repeated_digits |-> "Phone has suspicious repeated digits"]

\* f.replace(/_/g, ' ')
Humanize(f, i) == MapChars(f, i, Len(f), "humanize", {})

DescribeFlag(f) ==
    IF f \in DOMAIN FLAG_DESCRIPTIONS THEN FLAG_DESCRIPTIONS[f] ELSE Humanize(f, 1)

\* parts.join(sep) from part i on.
RECURSIVE Join(_, _, _)
Join(parts, sep, i) ==
    IF i > Len(parts) THEN ""
    ELSE parts[i] \o (IF i < Len(parts) THEN sep ELSE "") \o Join(parts, sep, i + 1)

generateFallbackExplanationAllFlags(riskLevel, flags) ==
    Join(<<"LOW RISK: No major red flags detected.",
           "Detected issues: "
               \o Join([i \in 1..Len(flags) |-> DescribeFlag(flags[i])], "; ", 1) \o ".">>,
         " ", 1)

generateFallbackExplanation(riskLevel, flags) ==
    LET headline ==
            IF riskLevel = "high_risk"
            THEN "HIGH RISK: This appears to be a potential scam."
            ELSE IF riskLevel = "suspicious"
            THEN "SUSPICIOUS: This has some concerning patterns."
            ELSE "LOW RISK: No major red flags detected."
        descriptions == [i \in 1..Min(Len(flags), 3) |-> DescribeFlag(flags[i])]
        issues ==
            IF Len(flags) > 0
            THEN <<"Detected issues: " \o Join(descriptions, "; ", 1) \o ".">>
            ELSE <<>>
        caution ==
            IF riskLevel # "safe"
            THEN <<"Do NOT click links, share OTP, or send money. Verify through official channels.">>
            ELSE <<>>
    IN  Join(<<headline>> \o issues \o caution, " ", 1)


(***************************************************************************)
(* The inputs of the model.                                                *)
(***************************************************************************)
MessageCorpus ==
    {"Congratulations! You've won $50,000! Click bit.ly/claim now and share your OTP.",
     "hello, see you at lunch tomorrow",
     "URGENT: your account will be blocked. Verify KYC at http://sbi-secure.xyz/login",
     "Dear customer pay Rs 500 processing fee to claim prize!!!",
     "call +2349876543210 or 9999999999 now",
     "visit http://amaz0n-secure.xyz/login and http://192.168.0.1/verify today",
     "see a.com b.org c.net and pay at x.xyz/refund",
     "jaldi karo, otp bhejo abhi",
     "~^| otp batao {|}",
     "work from home and earn money daily, no interview",
     "invest in crypto and double money, guaranteed return",
     "your parcel delivery failed, track order now",
     "instant loan approved, low interest",
     "forward to 10 groups, viral news",
     "  urgent!!   share\totp \n now ",
     "ring 98765-43210, 98765 43210 or +91 9876500000",
     "win $ 5 lakh",
     "~^|{ }[ ok",
     "otp batao ~ jaldi"}

UrlCorpus ==
    {"https://amazon.in",
     "http://amaz0n-secure.xyz/login",
     "http://192.168.0.1/verify",
     "192.168.0.1/verify",
     "bit.ly/claim",
     "www.google.com",
     "https://xn--80ak6aa92e.com",
     "http://user@paytm-login.top/update/account/verify/bank/confirm/secure",
     "https://a.b.c.d.example.com/x?q=1#top",
     "https://example.com/r/abcdefghij0123456789abcdefghij0123456789abcdefghij0123456789abcdefghij0123456789ab",
     "http://exa mple.com",
     "https://example.com:99999/",
     "httpfoo",
     "httpbin.xyz/login",
     "http://example.com/login/login",
     "HTTP://EXAMPLE.COM/Login",
     "~^|.com",
     "my_shop.co"}

PhoneCorpus ==
    {"+91 98765 43210",
     "9999999999",
     "+1 (555) 123-4567",
     "1234567890",
     "98765",
     "+2348012345678",
     "9876543210123456",
     "9876500000",
     "+1 9999999999",
     "+91-(98765)-43210",
     "+919123456780",
     "+91 99999 12345",
     "+91 9898989898",
     "+123456789",
     "+1111111111"}

\* s repeated n times.
RECURSIVE Repeat(_, _)
Repeat(s, n) ==
    IF n = 0 THEN "" ELSE IF n = 1 THEN s
    ELSE Repeat(s, n \div 2) \o Repeat(s, n - n \div 2)

\* An input of 302 characters, for the route handler.
LongInput == Repeat("ha ", 100) \o "ha"

Corpus == MessageCorpus \cup UrlCorpus \cup PhoneCorpus

\* The arguments of generateFallbackExplanation: the risk levels, and lists
\* of none to five flags, with flags that FLAG_DESCRIPTIONS does not have.
RiskLevels == {"safe", "suspicious", "high_risk"}

FlagLists ==
    {<<>>,
     <<"otp_kyc_request">>,
     <<"no_https">>,
     <<"weird_domain_chars", "url_shortener">>,
     <<"urgency_pressure", "suspicious_path_token", "brand_spoofing">>,
     <<"urgency_pressure", "suspicious_path_token", "brand_spoofing", "no_https">>,
     <<"urgency_pressure", "suspicious_path_token", "brand_spoofing",
       "suspicious_tld", "contains_link">>}

\* The type argument of analyze: a type, "auto", a value that is no type,
\* and "" for a falsy value (undefined: the argument left out).
TypeArgs == {"", "auto", "message", "url", "phone", "email"}


(***************************************************************************)
(* analyze.  The findings of the message analyzer on the texts of the      *)
(* model, with every lastIndex at 0, are tabulated once: the analyzer is a *)
(* function of the text and of lastIndex, so a call in that situation      *)
(* reads its findings from the table.                                      *)
(***************************************************************************)
MessageTexts == Corpus \cup {normalizeInput(x) : x \in Corpus}

MessageFindingsTable ==
    [x \in MessageTexts |-> analyzeMessageFindings(x, NoLastIndex)]

MessageFindings(text, li) ==
    IF li = NoLastIndex /\ text \in MessageTexts
    THEN MessageFindingsTable[text]
    ELSE analyzeMessageFindings(text, li)

Disclaimer ==
    "This is a risk-based analysis, not a verification. Always verify through official channels."

\* The return statement of analyze: the analysis with the input type, the
\* language, the fallback explanation and the disclaimer.
AnalyzeReturn(inputType, language, analysis) ==
    analysis @@ [inputType   |-> inputType,
                 language    |-> language,
                 explanation |-> generateFallbackExplanation(analysis.riskLevel,
                                                             analysis.flags),
                 disclaimer  |-> Disclaimer]

\* analyze after its switch, findings being the accumulators of the
\* analyzer it dispatched to.
AnalyzeFound(normalized, inputType, findings, li) ==
    [result    |-> AnalyzeReturn(inputType, detectLanguage(normalized),
                                 IF inputType \in {"url", "phone"} THEN Result(findings)
                                 ELSE MessageResult(findings)),
     raw       |-> findings.riskScore,
     lastIndex |-> IF inputType \in {"url", "phone"} THEN li ELSE findings.lastIndex]

\* The switch of analyze on the input type; any other type falls to the
\* message analyzer.
AnalyzeTyped(normalized, inputType, li) ==
    AnalyzeFound(normalized, inputType,
                 CASE inputType = "url"   -> analyzeUrlFindings(normalized)
                   [] inputType = "phone" -> analyzePhoneFindings(normalized)
                   [] OTHER               -> MessageFindings(normalized, li),
                 li)

AnalyzeNormalizedDetected(normalized, type, li) ==
    AnalyzeTyped(normalized, detectInputType(normalized), li)

\* `type === 'auto' || !type ? detectInputType(normalized) : type'
AnalyzeNormalized(normalized, type, li) ==
    AnalyzeTyped(normalized,
                 IF type = "auto" \/ type = "" THEN detectInputType(normalized)
                 ELSE type,
                 li)

\* A call of analyze: the result it returns, the raw total of the analyzer
\* it dispatched to, and the lastIndex of the patterns after the call.
analyze(input, type, li) == AnalyzeNormalized(normalizeInput(input), type, li)

\* analyze on the inputs of the model with every lastIndex at 0.
AnalyzeTable ==
    [x \in Corpus \cup {LongInput}, t \in TypeArgs |-> analyze(x, t, NoLastIndex)]

Analyze(input, type, li) ==
    IF li = NoLastIndex /\ input \in Corpus \cup {LongInput} /\ type \in TypeArgs
    THEN AnalyzeTable[input, type]
    ELSE analyze(input, type, li)

\* The findings of analyzeUrl and analyzePhone on the inputs of the model.
UrlFindingsTable == [x \in Corpus |-> analyzeUrlFindings(x)]

PhoneFindingsTable == [x \in Corpus |-> analyzePhoneFindings(x)]

(***************************************************************************)
(* The route handler (POST) and getGeminiExplanation.                      *)
(*                                                                         *)
(* A JavaScript value that comes out of JSON is a record [t, v]: t is its  *)
(* type ("undefined" for a property that is absent) and v its text.        *)
(***************************************************************************)
JUndefined == [t |-> "undefined", v |-> ""]

JNull == [t |-> "null", v |-> ""]

JNumber(n) == [t |-> "number", v |-> n]

JString(str) == [t |-> "string", v |-> str]

\* Whether a value is truthy (!!x).
Truthy(x) ==
    CASE x.t = "string" -> x.v # ""
      [] x.t = "number" -> x.v # "0"
      [] OTHER          -> FALSE

\* What `await request.json()' yields: the promise rejects (the body is no
\* JSON), or resolves to null or to an object with its input and type.
MalformedBody == [kind |-> "malformed"]

NullBody == [kind |-> "null"]

ObjectBody(input, type) == [kind |-> "object", input |-> input, type |-> type]

BodyInputs ==
    {JUndefined, JNumber("0"), JNumber("5"), JString(""), JString(" \t\n"),
     JString("hello, see you at lunch tomorrow"),
     JString("URGENT: your account will be blocked. Verify KYC at http://sbi-secure.xyz/login"),
     JString("  bit.ly/claim \n"),
     JString(LongInput)}

BodyTypes == {JUndefined, JString("url"), JString("email")}

Bodies ==
    {MalformedBody, NullBody}
        \cup {ObjectBody(input, type) : input \in BodyInputs, type \in BodyTypes}

\* The lines of POST between `await request.json()' and the call of
\* analyze: the response they return, or the arguments of the call.  A
\* rejected request.json() and a TypeError (input.trim of a value that is
\* no string) go to the catch block.
Rejected(status, error) == [outcome |-> "respond", status |-> status, error |-> error]

ValidateUntrimmed(body) ==
    IF body.kind = "malformed" THEN Rejected(500, "Analysis failed")
    ELSE IF body.kind = "null" \/ ~Truthy(body.input)
         THEN Rejected(400, "No input provided")
    ELSE IF body.input.t # "string" THEN Rejected(500, "Analysis failed")
    ELSE [outcome |-> "analyze", input |-> body.input.v,
          type |-> IF Truthy(body.type) THEN body.type.v ELSE "auto"]

Validate(body) ==
    IF body.kind = "malformed" THEN Rejected(500, "Analysis failed")
    ELSE IF body.kind = "null" \/ ~Truthy(body.input)
         THEN Rejected(400, "No input provided")
    ELSE IF body.input.t # "string" THEN Rejected(500, "Analysis failed")
    ELSE Bind(trim(body.input.v), LAMBDA input :
             IF input = "" THEN Rejected(400, "Empty input")
             ELSE [outcome |-> "analyze", input |-> input,
                   type |-> IF Truthy(body.type) THEN body.type.v ELSE "auto"])

\* What the collaborator's endpoint answers to fetch: the promise rejects
\* (a network error), or resolves to a response that is not ok, or to one
\* that is ok and whose json() rejects, yields null, or yields a value with
\* text at candidates?.[0]?.content?.parts?.[0]?.text (undefined when a
\* step of the path is missing).
FetchRejects == [kind |-> "rejects"]

NotOk == [kind |-> "not_ok"]

OkMalformed == [kind |-> "ok", json |-> "malformed", text |-> JUndefined]

OkNull == [kind |-> "ok", json |-> "null", text |-> JUndefined]

OkText(text) == [kind |-> "ok", json |-> "value", text |-> text]

Answers ==
    {FetchRejects, NotOk, OkMalformed, OkNull}
        \cup {OkText(text) : text \in
                {JUndefined, JNumber("5"), JString(""), JString(" \n "),
                 JString("  Ye FAKE hai.\n\n\n\nOTP share mat karo. \n")}}

\* text.replace(/\n{3,}/g, '\n\n') on the characters lo..hi of s: of a run
\* of three or more newlines the first two are kept.
RECURSIVE SqueezeNewlines(_, _, _)
SqueezeNewlines(s, lo, hi) ==
    IF lo > hi THEN ""
    ELSE IF lo = hi
         THEN IF At(s, lo) = "\n" /\ At(s, lo - 1) = "\n" /\ At(s, lo - 2) = "\n"
              THEN "" ELSE At(s, lo)
    ELSE SqueezeNewlines(s, lo, (lo + hi) \div 2)
             \o SqueezeNewlines(s, (lo + hi) \div 2 + 1, hi)

\* `originalInput.length > 300 ? originalInput.slice(0, 300) + '...' :
\* originalInput', the copy of the input in the prompt.
safeInput(originalInput) ==
    IF Len(originalInput) > 300 THEN SubSeq(originalInput, 1, 300) \o "..."
    ELSE originalInput

\* The try block of getGeminiExplanation after fetch has settled with
\* answer a, up to `await response.json()': what the function returns, or
\* that it awaits the body.
AfterFetchUncaught(a) ==
    IF a.kind = "rejects" THEN [outcome |-> "throw"]
    ELSE IF a.kind = "not_ok" THEN [outcome |-> "return", value |-> JNull]
    ELSE [outcome |-> "await"]

AfterFetch(a) ==
    IF a.kind = "rejects" THEN [outcome |-> "return", value |-> JNull]
    ELSE IF a.kind = "not_ok" THEN [outcome |-> "return", value |-> JNull]
    ELSE [outcome |-> "await"]

\* The try block after response.json() has settled: a rejection and a
\* TypeError (candidates of null, trim of a text that is no string) go to
\* the catch block, which returns null.
AfterJsonUntrimmed(a) ==
    IF a.json # "value" \/ ~Truthy(a.text) \/ a.text.t # "string" THEN JNull
    ELSE JString(a.text.v)

AfterJson(a) ==
    IF a.json = "malformed" \/ a.json = "null" THEN JNull
    ELSE IF ~Truthy(a.text) THEN JNull
    ELSE IF a.text.t # "string" THEN JNull
    ELSE Bind(trim(a.text.v), LAMBDA trimmed :
             JString(SqueezeNewlines(trimmed, 1, Len(trimmed))))

\* The body of the response of a successful analysis.
ResponseBodyRescored(result, aiExplanation) ==
    [success         |-> TRUE,
     input_type      |-> result.inputType,
     language        |-> result.language,
     risk_score      |-> IF Truthy(aiExplanation) THEN Len(aiExplanation.v)
                         ELSE result.riskScore,
     risk_level      |-> result.riskLevel,
     flags           |-> result.flags,
     details         |-> result.details,
     embedded_urls   |-> IF "embeddedUrls" \in DOMAIN result
                         THEN result.embeddedUrls ELSE <<>>,
     embedded_phones |-> IF "embeddedPhones" \in DOMAIN result
                         THEN result.embeddedPhones ELSE <<>>,
     explanation     |-> IF Truthy(aiExplanation) THEN aiExplanation.v
                         ELSE result.explanation,
     disclaimer      |-> result.disclaimer]

ResponseBody(result, aiExplanation) ==
    [success         |-> TRUE,
     input_type      |-> result.inputType,
     language        |-> result.language,
     risk_score      |-> result.riskScore,
     risk_level      |-> result.riskLevel,
     flags           |-> result.flags,
     details         |-> result.details,
     embedded_urls   |-> IF "embeddedUrls" \in DOMAIN result
                         THEN result.embeddedUrls ELSE <<>>,
     embedded_phones |-> IF "embeddedPhones" \in DOMAIN result
                         THEN result.embeddedPhones ELSE <<>>,
     explanation     |-> IF Truthy(aiExplanation) THEN aiExplanation.v
                         ELSE result.explanation,
     disclaimer      |-> result.disclaimer]

\* POST up to its call of analyze and getGeminiExplanation after its fetch,
\* on the bodies and the answers of the model.
ValidateTable == [body \in Bodies |-> Validate(body)]

AfterJsonTable ==
    [a \in {x \in Answers : x.kind = "ok"} |-> AfterJson(a)]

(***************************************************************************)
(* The engine and its callers.                                             *)
(***************************************************************************)
VARIABLES
    lastIndex,  \* lastIndex of every RegExp of MESSAGE_RULES
    call,       \* the engine call a caller has just made, if any
    seen,       \* an earlier call of analyze, kept by its caller
    apiKey,     \* whether GEMINI_API_KEY is set
    reqs,       \* the requests of the route handler
    page        \* the state of the page ScamShieldPage

vars == <<lastIndex, call, seen, apiKey, reqs, page>>

Idle == [pc |-> "idle"]

MaxRequests == 2

Reqs == 1..MaxRequests

NoRequest == [pc |-> "none"]

NoResult == [riskScore |-> -1]

NoAnswer == [kind |-> "none"]

NoResponse == [status |-> 0]

\* No result on display (result is null), and no fetch of the page pending.
NoData == [success |-> FALSE]

NoFetch == [pending |-> FALSE]

Init ==
    /\ lastIndex = NoLastIndex
    /\ call = Idle
    /\ seen = Idle
    /\ apiKey \in BOOLEAN
    /\ reqs = [r \in Reqs |-> NoRequest]
    /\ page = [activeTab |-> "message", messageInput |-> "", urlInput |-> "",
               phoneInput |-> "", isLoading |-> FALSE, result |-> NoData,
               resultTab |-> "", fetch |-> NoFetch]

Returned(fn, input, type, run) ==
    [pc |-> "returned", fn |-> fn, input |-> input, type |-> type,
     raw |-> run.raw, result |-> run.result]

\* A caller calls analyze(input, type).
CallAnalyze(input, type) ==
    /\ call.pc = "idle"
    /\ \E run \in {Analyze(input, type, lastIndex)} :
           /\ call' = Returned("analyze", input, type, run)
           /\ lastIndex' = run.lastIndex
    /\ UNCHANGED <<seen, apiKey, reqs, page>>

\* A caller calls analyzeMessage(text).
CallAnalyzeMessage(text) ==
    /\ call.pc = "idle"
    /\ \E findings \in {MessageFindings(text, lastIndex)} :
           /\ call' = Returned("analyzeMessage", text, "message",
                               [raw |-> findings.riskScore,
                                result |-> MessageResult(findings)])
           /\ lastIndex' = findings.lastIndex
    /\ UNCHANGED <<seen, apiKey, reqs, page>>

\* A caller calls analyzeUrl(url).
CallAnalyzeUrl(url) ==
    /\ call.pc = "idle"
    /\ \E findings \in {UrlFindingsTable[url]} :
           call' = Returned("analyzeUrl", url, "url",
                            [raw |-> findings.riskScore, result |-> Result(findings)])
    /\ UNCHANGED <<lastIndex, seen, apiKey, reqs, page>>

\* A caller calls analyzePhone(phone).
CallAnalyzePhone(phone) ==
    /\ call.pc = "idle"
    /\ \E findings \in {PhoneFindingsTable[phone]} :
           call' = Returned("analyzePhone", phone, "phone",
                            [raw |-> findings.riskScore, result |-> Result(findings)])
    /\ UNCHANGED <<lastIndex, seen, apiKey, reqs, page>>

\* A caller calls calculateRiskLevel(score).
CallCalculateRiskLevel(score) ==
    /\ call.pc = "idle"
    /\ call' = Returned("calculateRiskLevel", "", "",
                        [raw |-> score,
                         result |-> [riskScore |-> score,
                                     riskLevel |-> calculateRiskLevel(score)]])
    /\ UNCHANGED <<lastIndex, seen, apiKey, reqs, page>>

\* A caller calls generateFallbackExplanation(riskLevel, flags).
CallGenerateFallbackExplanation(riskLevel, flags) ==
    /\ call.pc = "idle"
    /\ call' = Returned("generateFallbackExplanation", "", "",
                        [raw |-> 0,
                         result |-> [riskLevel |-> riskLevel, flags |-> flags,
                                     explanation |->
                                         generateFallbackExplanation(riskLevel, flags)]])
    /\ UNCHANGED <<lastIndex, seen, apiKey, reqs, page>>

\* The caller is done with the result.
Return ==
    /\ call.pc = "returned"
    /\ call' = Idle
    /\ UNCHANGED <<lastIndex, seen, apiKey, reqs, page>>

\* The caller keeps the result of a call of analyze to compare later calls
\* with.
Keep ==
    /\ call.pc = "returned"
    /\ call.fn = "analyze"
    /\ seen = Idle
    /\ seen' = call
    /\ call' = Idle
    /\ UNCHANGED <<lastIndex, apiKey, reqs, page>>

Next ==
    \/ \E input \in Corpus, type \in TypeArgs : CallAnalyze(input, type)
    \/ \E text \in Corpus : CallAnalyzeMessage(text)
    \/ \E url \in Corpus : CallAnalyzeUrl(url)
    \/ \E phone \in Corpus : CallAnalyzePhone(phone)
    \/ \E score \in 0..100 : CallCalculateRiskLevel(score)
    \/ \E riskLevel \in RiskLevels, flags \in FlagLists :
           CallGenerateFallbackExplanation(riskLevel, flags)
    \/ Return
    \/ Keep

Spec == Init /\ [][Next]_vars

(***************************************************************************)
(* The steps of POST.  A request r is at pc:                               *)
(*   none       no request                                                 *)
(*   parsing    awaiting request.json()                                    *)
(*   fetching   in getGeminiExplanation, awaiting fetch                    *)
(*   hung       awaiting a fetch that never settles                        *)
(*   reading    in getGeminiExplanation, awaiting response.json()          *)
(*   explained  awaiting getGeminiExplanation, which has returned          *)
(*   done       the response is returned                                   *)
(* calls holds the arguments of the calls of analyze the request made.     *)
(* safeInput is the copy of the input in the prompt sent with fetch.       *)
(* answer is what the collaborator answered to the request's fetch, if it  *)
(* did.                                                                    *)
(***************************************************************************)
Failure500 == [status |-> 500, body |-> [error |-> "Analysis failed", success |-> FALSE]]

\* A request with the given body arrives.
Receive(r, body) ==
    /\ reqs[r].pc = "none"
    /\ reqs' = [reqs EXCEPT ![r] =
                  [pc |-> "parsing", body |-> body, calls |-> <<>>,
                   result |-> NoResult, safeInput |-> "", answer |-> NoAnswer,
                   ai |-> JUndefined, response |-> NoResponse]]
    /\ UNCHANGED <<lastIndex, call, seen, apiKey, page>>

\* request.json() settles: POST runs up to its first response or, through
\* analyze, into getGeminiExplanation, which returns null without a key
\* and else calls fetch.
Parse(r) ==
    /\ reqs[r].pc = "parsing"
    /\ \E v \in {ValidateTable[reqs[r].body]} :
           IF v.outcome = "respond"
           THEN /\ reqs' = [reqs EXCEPT ![r].pc = "done",
                              ![r].response =
                                  IF v.status = 500 THEN Failure500
                                  ELSE [status |-> v.status,
                                        body |-> [error |-> v.error]]]
                /\ UNCHANGED lastIndex
           ELSE \E run \in {Analyze(v.input, v.type, lastIndex)} :
                    /\ reqs' = [reqs EXCEPT
                                  ![r].pc = IF apiKey THEN "fetching" ELSE "explained",
                                  ![r].calls = Append(@, [input |-> v.input,
                                                          type |-> v.type]),
                                  ![r].result = run.result,
                                  ![r].safeInput = IF apiKey THEN safeInput(v.input)
                                                   ELSE @,
                                  ![r].ai = IF apiKey THEN @ ELSE JNull]
                    /\ lastIndex' = run.lastIndex
    /\ UNCHANGED <<call, seen, apiKey, page>>

\* fetch settles with answer a.  An exception that getGeminiExplanation
\* does not catch rejects its promise, and POST's catch block answers.
FetchSettles(r, a) ==
    /\ reqs[r].pc = "fetching"
    /\ \E o \in {AfterFetch(a)} :
           reqs' = [reqs EXCEPT ![r] =
                      CASE o.outcome = "throw" ->
                               [@ EXCEPT !.pc = "done", !.answer = a,
                                         !.response = Failure500]
                        [] o.outcome = "return" ->
                               [@ EXCEPT !.pc = "explained", !.answer = a,
                                         !.ai = o.value]
                        [] o.outcome = "await" ->
                               [@ EXCEPT !.pc = "reading", !.answer = a]]
    /\ UNCHANGED <<lastIndex, call, seen, apiKey, page>>

\* The collaborator accepts the connection and never answers: fetch is
\* called without a signal or a timeout, so its promise never settles.
FetchHangs(r) ==
    /\ reqs[r].pc = "fetching"
    /\ reqs' = [reqs EXCEPT ![r].pc = "hung"]
    /\ UNCHANGED <<lastIndex, call, seen, apiKey, page>>

\* response.json() settles and getGeminiExplanation returns.
JsonSettles(r) ==
    /\ reqs[r].pc = "reading"
    /\ reqs' = [reqs EXCEPT ![r].pc = "explained",
                            ![r].ai = AfterJsonTable[reqs[r].answer]]
    /\ UNCHANGED <<lastIndex, call, seen, apiKey, page>>

\* POST resumes after `await getGeminiExplanation(...)' and responds.
Respond(r) ==
    /\ reqs[r].pc = "explained"
    /\ reqs' = [reqs EXCEPT ![r].pc = "done",
                            ![r].response =
                                [status |-> 200,
                                 body |-> ResponseBody(reqs[r].result, reqs[r].ai)]]
    /\ UNCHANGED <<lastIndex, call, seen, apiKey, page>>

\* The response is sent and the request is over.
Close(r) ==
    /\ reqs[r].pc = "done"
    /\ reqs' = [reqs EXCEPT ![r] = NoRequest]
    /\ UNCHANGED <<lastIndex, call, seen, apiKey, page>>

HandlerNext ==
    \E r \in Reqs :
        \/ \E body \in Bodies : Receive(r, body)
        \/ Parse(r)
        \/ \E a \in Answers : FetchSettles(r, a)
        \/ FetchHangs(r)
        \/ JsonSettles(r)
        \/ Respond(r)
        \/ Close(r)

HandlerSpec == Init /\ [][HandlerNext]_vars

\* What request r does next once it has arrived; its pc allows one of
\* these steps at a time.
Continue(r) ==
    \/ Parse(r)
    \/ \E a \in Answers : FetchSettles(r, a)
    \/ FetchHangs(r)
    \/ JsonSettles(r)
    \/ Respond(r)
    \/ Close(r)

\* The event loop runs every continuation that is ready, and the network
\* settles every fetch or leaves it hanging; requests arrive as they may.
HandlerFairness == \A r \in Reqs : WF_vars(Continue(r))

FairHandlerSpec == Init /\ [][HandlerNext]_vars /\ HandlerFairness

(***************************************************************************)
(* The page ScamShieldPage: its state (useState) and its event handlers.   *)
(* The static page of src/backend/static/script.js has the same handlers:  *)
(* currentTab for activeTab, the display of resultsSection for result, and *)
(* the disabled analyze button for isLoading.                              *)
(***************************************************************************)
Tabs == {"message", "url", "phone"}

\* What the user types into the text area of a tab.
TabTexts ==
    [tab \in Tabs |->
        CASE tab = "message" -> {"", " \t\n", "hello, see you at lunch tomorrow"}
          [] tab = "url"     -> {"", "  bit.ly/claim \n"}
          [] tab = "phone"   -> {"", "9999999999"}]

\* The text area of the active tab.
InputField(tab) ==
    CASE tab = "message" -> "messageInput"
      [] tab = "url"     -> "urlInput"
      [] tab = "phone"   -> "phoneInput"

getCurrentInput(p) == p[InputField(p.activeTab)]

\* The JSON that POST answers to the body { input, type } of the page.
PageData(input, type) ==
    Bind(Validate(ObjectBody(JString(input), JString(type))), LAMBDA v :
        IF v.outcome = "respond" THEN [success |-> FALSE, error |-> v.error]
        ELSE ResponseBody(AnalyzeTable[v.input, v.type].result, JNull))

PageDataTable ==
    [input \in {trim(x) : x \in UNION {TabTexts[tab] : tab \in Tabs}} \ {""},
     type \in Tabs |-> PageData(input, type)]

\* How the fetch of handleAnalyze and its response.json() settle: with the
\* JSON of a successful analysis, with the JSON of a failure, or rejected.
FetchOutcomes == {"data", "failure", "rejects"}

\* onChange of the text area of the active tab (only that one is rendered).
InputChange(text) ==
    /\ text \in TabTexts[page.activeTab]
    /\ text # getCurrentInput(page)
    /\ page' = [page EXCEPT ![InputField(page.activeTab)] = text]
    /\ UNCHANGED <<lastIndex, call, seen, apiKey, reqs>>

\* onClick of a tab button: setActiveTab(tab.id); setResult(null).  The tab
\* buttons are never disabled.
TabClick(tab) ==
    /\ page' = [page EXCEPT !.activeTab = tab, !.result = NoData, !.resultTab = ""]
    /\ UNCHANGED <<lastIndex, call, seen, apiKey, reqs>>

\* handleAnalyze up to `await fetch': the analyze button is disabled while
\* isLoading, an empty input returns after an alert, and the request
\* carries the trimmed input with type: activeTab.
HandleAnalyze ==
    /\ ~page.isLoading
    /\ \E input \in {trim(getCurrentInput(page))} :
           /\ input # ""
           /\ page' = [page EXCEPT !.isLoading = TRUE, !.result = NoData,
                                   !.resultTab = "",
                                   !.fetch = [pending |-> TRUE, input |-> input,
                                              type |-> page.activeTab]]
    /\ UNCHANGED <<lastIndex, call, seen, apiKey, reqs>>

\* handleAnalyze from `await fetch' on: setResult(data) when data.success,
\* an alert otherwise and in the catch block, and setIsLoading(false) in
\* the finally block.  resultTab records the tab the request was started
\* on; nothing in the page reads it.
HandleAnalyzeResumes(outcome) ==
    /\ page.fetch.pending
    /\ \E data \in {IF outcome = "data"
                    THEN PageDataTable[page.fetch.input, page.fetch.type]
                    ELSE NoData} :
           page' = [page EXCEPT
                      !.result = IF data.success THEN data ELSE @,
                      !.resultTab = IF data.success THEN page.fetch.type ELSE @,
                      !.isLoading = FALSE,
                      !.fetch = NoFetch]
    /\ UNCHANGED <<lastIndex, call, seen, apiKey, reqs>>

PageNext ==
    \/ \E text \in UNION {TabTexts[tab] : tab \in Tabs} : InputChange(text)
    \/ \E tab \in Tabs : TabClick(tab)
    \/ HandleAnalyze
    \/ \E outcome \in FetchOutcomes : HandleAnalyzeResumes(outcome)

PageSpec == Init /\ [][PageNext]_vars

(***************************************************************************)
(* Properties of the engine, checked on the calls of Spec.                 *)
(***************************************************************************)
Analyzers == {"analyzeMessage", "analyzeUrl", "analyzePhone"}

Scored == Analyzers \cup {"analyze"}

\* C1: the riskScore returned by analyzeMessage, analyzeUrl, analyzePhone
\* and analyze is an integer from 0 to 100, and it is exactly 100 whenever
\* the raw accumulated total exceeds 100 (otherwise it is the raw total).
C1_ScoreClamped ==
    call.pc = "returned" /\ call.fn \in Scored =>
        /\ call.result.riskScore \in 0..100
        /\ call.raw > 100 => call.result.riskScore = 100
        /\ call.raw <= 100 => call.result.riskScore = call.raw

\* An analyzer has returned for an input whose raw total exceeds 100.
C1_Witness ==
    /\ call.pc = "returned"
    /\ call.fn \in Scored
    /\ call.raw > 100
    /\ call.result.riskScore = 100

\* C2: in every result, and for every score given to calculateRiskLevel,
\* the risk level is safe exactly for a score of at most 30, suspicious
\* exactly for 31..60 and high_risk exactly for 61 and more.
C2_LevelOfScore ==
    call.pc = "returned" /\ "riskScore" \in DOMAIN call.result =>
        /\ call.result.riskLevel \in {"safe", "suspicious", "high_risk"}
        /\ call.result.riskLevel = "safe" <=> call.result.riskScore <= 30
        /\ call.result.riskLevel = "suspicious" <=> call.result.riskScore \in 31..60
        /\ call.result.riskLevel = "high_risk" <=> call.result.riskScore >= 61

\* An analyzer has returned a score on a threshold: 30, which is safe.
C2_Witness ==
    /\ call.pc = "returned"
    /\ call.fn \in Scored
    /\ call.result.riskScore = 30
    /\ call.result.riskLevel = "safe"

\* Whether no value occurs twice in the sequence q.
NoDuplicates(q) == \A i, j \in 1..Len(q) : q[i] = q[j] => i = j

\* Whether the elements of q occur in the sequence order, in that order.
InOrderOf(q, order) ==
    \A i, j \in 1..Len(q) :
        i < j => \E a, b \in 1..Len(order) : a < b /\ order[a] = q[i] /\ order[b] = q[j]

\* The flags of analyzeUrl and of analyzePhone in the order of their checks.
UrlFlagOrder ==
    <<"ip_based_url", "punycode_domain", "userinfo_in_url", "no_https",
      "suspicious_tld", "url_shortener", "brand_spoofing", "suspicious_path_token",
      "excessive_subdomains", "suspicious_long_url", "random_string_url",
      "weird_domain_chars">>

PhoneFlagOrder ==
    <<"foreign_country_code", "suspicious_number_length", "invalid_number_pattern",
      "suspicious_repeated_digits">>

\* q without the later occurrences of a value.
FirstAppearances(q) ==
    LET Kept(i) == \A j \in 1..(i - 1) : q[j] # q[i]
        ks == SelectSeq([i \in 1..Len(q) |-> i], Kept)
    IN  [k \in 1..Len(ks) |-> q[ks[k]]]

\* The flags a message raises, in the order in which analyzeMessage raises
\* them: the flags of the rules that match, in catalog order, then those
\* of the first two embedded URLs, then those of the first two phones.
RaisedBy(text) ==
    LET textLower == toLowerCase(text)
        Matches(r) == FirstMatch(r, textLower, NoLastIndex) # 0
        rs     == SelectSeq([r \in 1..Len(MESSAGE_RULES) |-> r], Matches)
        urls   == extractUrls(text)
        phones == extractPhones(text)
    IN  [k \in 1..Len(rs) |-> MESSAGE_RULES[rs[k]].flag]
        \o Flatten([i \in 1..Min(Len(urls), 2) |-> analyzeUrl(urls[i]).flags],
                   1, Min(Len(urls), 2))
        \o Flatten([i \in 1..Min(Len(phones), 2) |-> analyzePhone(phones[i]).flags],
                   1, Min(Len(phones), 2))

RaisedTable == [x \in Corpus |-> FirstAppearances(RaisedBy(x))]

\* C3: the flags of a result of analyzeMessage, analyzeUrl or analyzePhone
\* hold no value twice and are in order of first appearance: the order of
\* the checks for a URL or a phone, and for a message the order in which
\* the rules and the embedded entities raise them.
C3_FlagsUnique ==
    call.pc = "returned" /\ call.fn \in Analyzers =>
        /\ NoDuplicates(call.result.flags)
        /\ call.fn = "analyzeUrl" => InOrderOf(call.result.flags, UrlFlagOrder)
        /\ call.fn = "analyzePhone" => InOrderOf(call.result.flags, PhoneFlagOrder)
        /\ call.fn = "analyzeMessage" => call.result.flags = RaisedTable[call.input]

\* analyzeMessage has returned for a message with two embedded URLs that
\* both raise no_https.
C3_Witness ==
    /\ call.pc = "returned"
    /\ call.fn = "analyzeMessage"
    /\ call.input = "visit http://amaz0n-secure.xyz/login and http://192.168.0.1/verify today"
    /\ Len(call.result.embeddedUrls) = 2
    /\ HasFlag(call.result.flags, "no_https")

\* C4: in every result of analyzeMessage, analyzeUrl and analyzePhone,
\* details is as long as flags and details[i].flag = flags[i] for every i.
\* (A message with an embedded URL or phone number that raises a flag
\* refutes it: the flag is merged into flags and no details entry is
\* pushed.)
C4_DetailsParallel ==
    call.pc = "returned" /\ call.fn \in Analyzers =>
        /\ Len(call.result.details) = Len(call.result.flags)
        /\ \A i \in 1..Len(call.result.flags) :
               i <= Len(call.result.details)
                   => call.result.details[i].flag = call.result.flags[i]

\* C5: two calls of analyze with the same input and type, with any calls
\* of the engine in between, return the same riskScore, riskLevel, flags,
\* details, inputType, language and explanation, and no call leaves state
\* behind in the shared rule patterns (every lastIndex stays 0).
C5_Deterministic ==
    /\ lastIndex = NoLastIndex
    /\ (/\ call.pc = "returned" /\ call.fn = "analyze"
        /\ seen.pc = "returned"
        /\ seen.input = call.input /\ seen.type = call.type)
       => /\ call.result.riskScore = seen.result.riskScore
          /\ call.result.riskLevel = seen.result.riskLevel
          /\ call.result.flags = seen.result.flags
          /\ call.result.details = seen.result.details
          /\ call.result.inputType = seen.result.inputType
          /\ call.result.language = seen.result.language
          /\ call.result.explanation = seen.result.explanation

\* analyze has returned a second time for a message on which rules match.
C5_Witness ==
    /\ call.pc = "returned" /\ call.fn = "analyze"
    /\ seen.pc = "returned"
    /\ seen.input = call.input /\ seen.type = call.type
    /\ call.result.inputType = "message"
    /\ Len(call.result.details) >= 2

(***************************************************************************)
(* Properties of the route handler, checked on the requests of             *)
(* HandlerSpec.                                                            *)
(***************************************************************************)
\* Whether request r has been answered with a successful response.
Succeeded(r) == reqs[r].pc = "done" /\ reqs[r].response.status = 200

\* The input and the type POST passes to analyze for a request whose input
\* is a string.
TrimmedInputs ==
    [v \in {x.v : x \in {y \in BodyInputs : y.t = "string"}} |-> trim(v)]

InputOf(r) == TrimmedInputs[reqs[r].body.input.v]

TypeOf(r) == IF Truthy(reqs[r].body.type) THEN reqs[r].body.type.v ELSE "auto"

\* What analyze returns for the input and the type of request r.
Analyzed(r) == AnalyzeTable[InputOf(r), TypeOf(r)].result

\* Whether the collaborator answered request r with text that is not empty
\* after trimming.
GaveText(r) ==
    /\ reqs[r].answer.kind = "ok"
    /\ reqs[r].answer.json = "value"
    /\ reqs[r].answer.text.t = "string"
    /\ trim(reqs[r].answer.text.v) # ""

\* Whether the collaborator was called for request r and failed: a network
\* error, a status that is not OK, a body that is not JSON, JSON without
\* the candidate text, or text that is no string.
CollaboratorFailed(r) ==
    \/ reqs[r].answer.kind \in {"rejects", "not_ok"}
    \/ /\ reqs[r].answer.kind = "ok"
       /\ \/ reqs[r].answer.json # "value"
          \/ reqs[r].answer.text.t # "string"

\* C6: the risk_score, risk_level, flags and details of a successful
\* response are those of analyze(input, type), whatever the collaborator
\* did (no key, text, empty text, status not OK, malformed body, network
\* error).
C6_ScoreUntouched ==
    \A r \in Reqs :
        Succeeded(r) =>
            /\ reqs[r].response.body.risk_score = Analyzed(r).riskScore
            /\ reqs[r].response.body.risk_level = Analyzed(r).riskLevel
            /\ reqs[r].response.body.flags = Analyzed(r).flags
            /\ reqs[r].response.body.details = Analyzed(r).details

\* A request with a scored input is answered with the collaborator's text
\* as its explanation.
C6_Witness ==
    \E r \in Reqs :
        /\ Succeeded(r)
        /\ GaveText(r)
        /\ reqs[r].response.body.risk_score > 0
        /\ reqs[r].response.body.explanation # Analyzed(r).explanation

\* C7: the explanation of a successful response is not empty: it is the
\* collaborator's text (trimmed, runs of newlines squeezed) when that text
\* is not empty after trimming, and else exactly
\* generateFallbackExplanation(riskLevel, flags).
C7_ExplanationPresent ==
    \A r \in Reqs :
        Succeeded(r) =>
            /\ reqs[r].response.body.explanation # ""
            /\ GaveText(r) =>
                   reqs[r].response.body.explanation
                       = SqueezeNewlines(trim(reqs[r].answer.text.v), 1,
                                         Len(trim(reqs[r].answer.text.v)))
            /\ ~GaveText(r) =>
                   reqs[r].response.body.explanation
                       = generateFallbackExplanation(reqs[r].response.body.risk_level,
                                                     reqs[r].response.body.flags)

\* A request is answered after the collaborator returned text of white
\* space only.
C7_Witness ==
    \E r \in Reqs :
        /\ Succeeded(r)
        /\ reqs[r].answer.kind = "ok"
        /\ reqs[r].answer.json = "value"
        /\ reqs[r].answer.text.t = "string"
        /\ reqs[r].answer.text.v # ""
        /\ trim(reqs[r].answer.text.v) = ""

\* C8: a request for which the collaborator failed is answered with a
\* successful response that carries the scored result and the fallback
\* explanation, never with the 500 response.
C8_FailureAbsorbed ==
    \A r \in Reqs :
        reqs[r].pc = "done" /\ CollaboratorFailed(r) =>
            /\ reqs[r].response.status = 200
            /\ reqs[r].response.body.success
            /\ reqs[r].response.body.risk_score = Analyzed(r).riskScore
            /\ reqs[r].response.body.explanation = Analyzed(r).explanation

\* A request is answered after its fetch was rejected.
C8_Witness ==
    \E r \in Reqs :
        /\ reqs[r].pc = "done"
        /\ reqs[r].answer.kind = "rejects"
        /\ reqs[r].response.status = 200

\* C9: a request with valid input is eventually answered, also when the
\* collaborator never answers.  (fetch is called without a timeout or an
\* abort signal: a request whose fetch never settles is never answered.)
C9_EventuallyAnswered ==
    \A r \in Reqs : (reqs[r].pc = "fetching") ~> (reqs[r].pc = "done")

\* Whether the input of request r is missing, empty or white space only.
NoInput(r) ==
    \/ reqs[r].body.kind = "null"
    \/ /\ reqs[r].body.kind = "object"
       /\ \/ reqs[r].body.input.t = "undefined"
          \/ /\ reqs[r].body.input.t = "string"
             /\ TrimmedInputs[reqs[r].body.input.v] = ""

\* C10: a request whose input is missing, empty or white space only is
\* answered with status 400 without a call of analyze, and analyze is only
\* ever called with a trimmed string that is not empty.
C10_InputValidated ==
    \A r \in Reqs :
        reqs[r].pc # "none" =>
            /\ \A i \in 1..Len(reqs[r].calls) :
                   /\ reqs[r].calls[i].input # ""
                   /\ At(reqs[r].calls[i].input, 1) \notin SpaceChars
                   /\ At(reqs[r].calls[i].input, Len(reqs[r].calls[i].input))
                          \notin SpaceChars
            /\ NoInput(r) => reqs[r].calls = <<>>
            /\ NoInput(r) /\ reqs[r].pc = "done" => reqs[r].response.status = 400

\* A request whose input is white space only is answered.
C10_Witness ==
    \E r \in Reqs :
        /\ reqs[r].pc = "done"
        /\ reqs[r].body.kind = "object"
        /\ reqs[r].body.input.t = "string"
        /\ reqs[r].body.input.v # ""
        /\ trim(reqs[r].body.input.v) = ""
        /\ reqs[r].response.status = 400

\* The values the spec allows as an explicit type, and the input types a
\* result may carry.
SupportedTypes == {"message", "url", "phone", "auto"}

InputTypes == {"message", "url", "phone"}

\* Whether request r names a type, and one that is not supported.
UnsupportedType(r) ==
    /\ reqs[r].body.kind = "object"
    /\ reqs[r].body.type.t = "string"
    /\ reqs[r].body.type.v # ""
    /\ reqs[r].body.type.v \notin SupportedTypes

\* C11: a request whose explicit type is none of message, url, phone and
\* auto is answered with an error and never analysed, and no response
\* carries an input type other than message, url and phone.  (POST hands
\* `type || "auto"' to analyze unchecked, and the switch of analyze sends
\* every other type to the message analyzer and returns the type as given.)
C11_UnsupportedTypeRejected ==
    \A r \in Reqs :
        /\ reqs[r].pc # "none" /\ UnsupportedType(r) => reqs[r].calls = <<>>
        /\ reqs[r].pc = "done" /\ UnsupportedType(r) => reqs[r].response.status # 200
        /\ Succeeded(r) => reqs[r].response.body.input_type \in InputTypes

\* What each analyzer returns for the normalized form of the inputs of the
\* model.
DispatchTable ==
    [x \in Corpus |->
        [url     |-> analyzeUrl(normalizeInput(x)),
         phone   |-> analyzePhone(normalizeInput(x)),
         message |-> analyzeMessage(normalizeInput(x), NoLastIndex)]]

DetectTable == [x \in Corpus |-> detectInputType(normalizeInput(x))]

\* A record restricted to the fields of another.
Restrict(rec, to) == [f \in DOMAIN to |-> rec[f]]

\* C12: analyze with type auto or without a type returns as inputType what
\* detectInputType makes of the normalized input, and with type message,
\* url or phone it returns that type; its score, level, flags and details
\* are those of the analyzer of inputType on the normalized input.
C12_Dispatch ==
    call.pc = "returned" /\ call.fn = "analyze" /\ call.type \in SupportedTypes \cup {""} =>
        /\ call.type \in {"auto", ""} => call.result.inputType = DetectTable[call.input]
        /\ call.type \in InputTypes => call.result.inputType = call.type
        /\ call.result.inputType \in InputTypes
        /\ Restrict(call.result, DispatchTable[call.input][call.result.inputType])
               = DispatchTable[call.input][call.result.inputType]

\* analyze has returned for an input that looks like a message and was
\* given as a URL, and for an input that normalization changes.
C12_Witness ==
    /\ call.pc = "returned" /\ call.fn = "analyze"
    /\ seen # Idle
    /\ seen.type = "url" /\ DetectTable[seen.input] = "message"
    /\ seen.result.flags # <<>>
    /\ call.type = "auto" /\ normalizeInput(call.input) # call.input
    /\ call.result.flags # <<>>

\* Whether `new URL' throws for the string analyzeUrl hands to it.
ParseFails(url) ==
    ~ParseUrl(IF startsWith(url, "http") THEN url ELSE "http://" \o url).ok

ParseFailsTable == [x \in Corpus |-> ParseFails(x)]

\* The checks of analyzeUrl with the text before the first "/" as domain
\* and no path.
FallbackTable ==
    [x \in {y \in Corpus : ParseFailsTable[y]} |->
        Result(UrlChecks(x, toLowerCase(x), SplitFirst(x, "/"), ""))]

\* Whether a result is complete: a score in 0..100, its level, and flags
\* and details.
Complete(result) ==
    /\ result.riskScore \in 0..100
    /\ result.riskLevel \in {"safe", "suspicious", "high_risk"}
    /\ DOMAIN result.flags = 1..Len(result.flags)
    /\ DOMAIN result.details = 1..Len(result.details)

\* C13: analyzeUrl returns a complete result for every string, and for one
\* that `new URL' rejects the result is that of all its checks with the
\* text before the first "/" as the domain.
C13_UrlParseFallback ==
    call.pc = "returned" /\ call.fn = "analyzeUrl" =>
        /\ Complete(call.result)
        /\ ParseFailsTable[call.input] => call.result = FallbackTable[call.input]

\* analyzeUrl has returned for a string that `new URL' rejects and has
\* flagged the top-level domain of the text before its first "/".
C13_Witness ==
    /\ call.pc = "returned" /\ call.fn = "analyzeUrl"
    /\ ParseFailsTable[call.input]
    /\ \E i \in 1..Len(call.result.flags) : call.result.flags[i] = "suspicious_tld"

\* The response POST gives to a request that runs alone, as a function of
\* its body and of what the collaborator answered to it ("none": the
\* collaborator was not called, as no key is set).
SoloExplanation(answer) ==
    IF answer.kind = "none" THEN JNull
    ELSE IF AfterFetch(answer).outcome = "return" THEN AfterFetch(answer).value
    ELSE AfterJsonTable[answer]

SoloResponse(body, answer) ==
    IF ValidateTable[body].outcome = "respond"
    THEN IF ValidateTable[body].status = 500 THEN Failure500
         ELSE [status |-> ValidateTable[body].status,
               body |-> [error |-> ValidateTable[body].error]]
    ELSE IF answer.kind # "none" /\ AfterFetch(answer).outcome = "throw" THEN Failure500
    ELSE [status |-> 200,
          body |-> ResponseBody(AnalyzeTable[ValidateTable[body].input,
                                             ValidateTable[body].type].result,
                                SoloExplanation(answer))]

\* C14: in every interleaving of the requests, the response to a request
\* is the one it gets when it runs alone, a function of its own body and
\* of the collaborator's answer to it, and no request changes the state
\* the engine shares (the lastIndex of the rule patterns).
C14_RequestsIndependent ==
    /\ lastIndex = NoLastIndex
    /\ \A r \in Reqs :
           reqs[r].pc = "done" =>
               reqs[r].response = SoloResponse(reqs[r].body, reqs[r].answer)

\* A request is answered while another, with another input and analysed
\* before it, is still suspended at its awaited explanation call.
C14_Witness ==
    \E r, q \in Reqs :
        /\ Succeeded(r)
        /\ reqs[r].response.body.flags # <<>>
        /\ reqs[q].pc \in {"fetching", "reading"}
        /\ reqs[q].result.flags # <<>>
        /\ reqs[q].body # reqs[r].body

\* The scenario message of the spec ("$" stands for the rupee sign).
PrizeMessage ==
    "Congratulations! You've won $50,000! Click bit.ly/claim now and share your OTP."

\* Whether a call has returned that analysed text as a message.
AnalyzedAsMessage(text) ==
    /\ call.pc = "returned"
    /\ call.input = text
    /\ \/ call.fn = "analyzeMessage"
       \/ call.fn = "analyze" /\ call.type = "message"

\* C15: the flags of the prize message, analysed as a message, include
\* lottery_reward_bait, otp_kyc_request, urgency_pressure and
\* contains_link.  (No pattern of the urgency rule matches the message:
\* "now" alone is no urgency phrase.)
C15_PrizeFlags ==
    AnalyzedAsMessage(PrizeMessage) =>
        /\ HasFlag(call.result.flags, "lottery_reward_bait")
        /\ HasFlag(call.result.flags, "otp_kyc_request")
        /\ HasFlag(call.result.flags, "urgency_pressure")
        /\ HasFlag(call.result.flags, "contains_link")

\* C16: the risk level of the prize message, analysed as a message, is
\* high_risk: its rules and its embedded link add up to 61 or more.
C16_PrizeHighRisk ==
    AnalyzedAsMessage(PrizeMessage) =>
        /\ call.result.riskLevel = "high_risk"
        /\ call.raw >= 61
        /\ call.result.riskScore >= 61

\* The prize message has been analysed as a message, and its link was
\* found and folded in.
C16_Witness ==
    /\ AnalyzedAsMessage(PrizeMessage)
    /\ call.fn = "analyzeMessage"
    /\ call.result.embeddedUrls = <<"bit.ly/claim">>
    /\ HasFlag(call.result.flags, "url_shortener")

\* The domain analyzeUrl works on: the hostname of the parsed URL, or the
\* text before the first "/" when `new URL' throws.
DomainOf(url) ==
    IF ParseFails(url) THEN SplitFirst(url, "/")
    ELSE ParseUrl(IF startsWith(url, "http") THEN url ELSE "http://" \o url).hostname

\* The letter a character stands for in leet.
Unleet(c) ==
    CASE c = "0" -> "o" [] c = "1" -> "l" [] c = "3" -> "e" [] c = "5" -> "s"
      [] c = "4" -> "a" [] c = "7" -> "t" [] c = "8" -> "b" [] OTHER -> c

\* Whether word occurs in host, as written or with leet characters read as
\* their letters.
OccursLeet(word, host) ==
    \E p \in 0..(Len(host) - Len(word)) :
        \A j \in 1..Len(word) : Unleet(At(host, p + j)) = At(word, j)

\* Whether host ends with suffix.
HasSuffix(host, suffix) ==
    /\ Len(suffix) <= Len(host)
    /\ SubSeq(host, Len(host) - Len(suffix) + 1, Len(host)) = suffix

\* Whether some known brand occurs in host and host is on none of the
\* brand's official domains.
SpoofsBrand(host) ==
    \E i \in 1..Len(KNOWN_BRANDS) :
        /\ OccursLeet(KNOWN_BRANDS[i], host)
        /\ \A tld \in {".com", ".in", ".co.in", ".org"} :
               ~HasSuffix(host, KNOWN_BRANDS[i] \o tld)

SpoofTable == [x \in Corpus |-> SpoofsBrand(DomainOf(x))]

\* The details entries of a result for a flag.
EntriesOf(result, flag) ==
    {i \in 1..Len(result.details) : result.details[i].flag = flag}

\* C17: analyzeUrl raises brand_spoofing, once and for 22 points, exactly
\* when a known brand occurs in the hostname, as written or de-leeted, and
\* the hostname is on none of that brand's official domains; it raises
\* none for https://amazon.in, and for http://amaz0n-secure.xyz/login it
\* raises it along with suspicious_tld.
C17_BrandSpoofing ==
    call.pc = "returned" /\ call.fn = "analyzeUrl" =>
        /\ HasFlag(call.result.flags, "brand_spoofing") <=> SpoofTable[call.input]
        /\ Cardinality({i \in 1..Len(call.result.flags) :
                           call.result.flags[i] = "brand_spoofing"}) <= 1
        /\ \A i \in EntriesOf(call.result, "brand_spoofing") :
               call.result.details[i].points = 22
        /\ Cardinality(EntriesOf(call.result, "brand_spoofing"))
               = IF SpoofTable[call.input] THEN 1 ELSE 0
        /\ call.input = "https://amazon.in" =>
               ~HasFlag(call.result.flags, "brand_spoofing")
        /\ call.input = "http://amaz0n-secure.xyz/login" =>
               /\ HasFlag(call.result.flags, "brand_spoofing")
               /\ HasFlag(call.result.flags, "suspicious_tld")

\* analyzeUrl has returned for the URL with the leet brand name.
C17_Witness ==
    /\ call.pc = "returned" /\ call.fn = "analyzeUrl"
    /\ call.input = "http://amaz0n-secure.xyz/login"
    /\ HasFlag(call.result.flags, "brand_spoofing")
    /\ seen # Idle /\ seen.input = "https://amazon.in" /\ seen.type = "url"
    /\ ~HasFlag(seen.result.flags, "brand_spoofing")

\* ^\d{1,3}\.\d{1,3}\.\d{1,3}\.\d{1,3}$: a host that is an IPv4 literal.
IPv4Literal ==
    Cat(<<Bol, Rep("digit", 1, 3), Lit("."), Rep("digit", 1, 3), Lit("."),
          Rep("digit", 1, 3), Lit("."), Rep("digit", 1, 3), Eol>>)

IPv4HostTable == [x \in Corpus |-> Ends(IPv4Literal, DomainOf(x), 0) # <<>>]

\* C18: analyzeUrl raises ip_based_url, for 25 points, for every URL whose
\* host is an IPv4 literal, with a scheme or without one.  (The test is
\* the pattern https?://\d{1,3}\.\d{1,3}\.\d{1,3}\.\d{1,3} on the URL as
\* given, not on the host: without a scheme it does not match.)
C18_IpBasedUrl ==
    call.pc = "returned" /\ call.fn = "analyzeUrl" /\ IPv4HostTable[call.input] =>
        /\ HasFlag(call.result.flags, "ip_based_url")
        /\ call.result.riskScore >= 25
        /\ \E i \in EntriesOf(call.result, "ip_based_url") :
               call.result.details[i].points = 25

\* The digits of a phone number, in order.
DigitsOf(phone) == DigitsFrom(phone, 1)

\* Whether a number has the +91 prefix and 12 digits, 3 or more different
\* digits among its last ten, and no digit 5 times in a row.
PlainIndian(phone) ==
    /\ startsWith(StripFrom(phone, 1, SpaceChars \cup {"-", "(", ")"}), "+91")
    /\ Len(DigitsOf(phone)) = 12
    /\ Cardinality({At(DigitsOf(phone), i) : i \in 3..12}) >= 3
    /\ \A p \in 1..8 : \E j \in 1..4 :
           At(DigitsOf(phone), p + j) # At(DigitsOf(phone), p)

PlainIndianTable == [x \in Corpus |-> PlainIndian(normalizeInput(x))]

\* Whether a call has returned that analysed its input as a phone number.
AnalyzedAsPhone ==
    /\ call.pc = "returned"
    /\ \/ call.fn = "analyzePhone"
       \/ call.fn = "analyze" /\ call.result.inputType = "phone"

\* C19: analyze of "+91 98765 43210" with type phone and with type auto
\* returns no flags, score 0 and level safe, and so does every analysis as
\* a phone number of a number with the +91 prefix and 12 digits that has 3
\* or more different digits among its last ten and no digit 5 times in a
\* row.
C19_PlainIndianNumber ==
    /\ call.pc = "returned" /\ call.fn = "analyze" /\ call.input = "+91 98765 43210"
           /\ call.type \in {"phone", "auto"} =>
               /\ call.result.inputType = "phone"
               /\ call.result.flags = <<>>
               /\ call.result.riskScore = 0
               /\ call.result.riskLevel = "safe"
    /\ AnalyzedAsPhone /\ PlainIndianTable[call.input] =>
           /\ call.result.flags = <<>>
           /\ call.result.riskScore = 0
           /\ call.result.riskLevel = "safe"

\* analyze has returned for the scenario number with type auto, after an
\* analysis as a phone number of a +91 number written with hyphens and
\* brackets.
C19_Witness ==
    /\ call.pc = "returned" /\ call.fn = "analyze"
    /\ call.input = "+91 98765 43210" /\ call.type = "auto"
    /\ call.result.inputType = "phone"
    /\ seen # Idle
    /\ seen.input = "+91-(98765)-43210" /\ seen.type = "phone"
    /\ PlainIndianTable[seen.input]

\* The URLs and the phone numbers analyzeMessage extracts from the inputs
\* of the model, with what analyzeUrl and analyzePhone return for them.
Elements(q) == {q[i] : i \in 1..Len(q)}

ExtractedUrls == UNION {Elements(MessageFindingsTable[x].urls) : x \in Corpus}

ExtractedPhones == UNION {Elements(MessageFindingsTable[x].phones) : x \in Corpus}

UrlResultTable == [u \in ExtractedUrls |-> analyzeUrl(u)]

PhoneResultTable == [p \in ExtractedPhones |-> analyzePhone(p)]

\* What the i-th extracted URL and the i-th extracted phone number add.
UrlShare(urls, i) ==
    IF i > Len(urls) THEN 0 ELSE Min(UrlResultTable[urls[i]].riskScore \div 2, 30)

PhoneShare(phones, i) ==
    IF i > Len(phones) THEN 0 ELSE Min(PhoneResultTable[phones[i]].riskScore \div 3, 15)

FoldedShare(urls, phones) ==
    UrlShare(urls, 1) + UrlShare(urls, 2) + PhoneShare(phones, 1) + PhoneShare(phones, 2)

\* The flags of the first two URLs and of the first two phone numbers.
FoldedFlags(urls, phones) ==
    UNION ({Elements(UrlResultTable[urls[i]].flags) : i \in 1..Min(Len(urls), 2)}
               \cup {Elements(PhoneResultTable[phones[i]].flags) :
                         i \in 1..Min(Len(phones), 2)})

\* The points of the details entries from entry i on.
RECURSIVE SumPoints(_, _)
SumPoints(details, i) ==
    IF i > Len(details) THEN 0 ELSE details[i].points + SumPoints(details, i + 1)

\* C20: the raw total of analyzeMessage is the weights of its rules plus,
\* for each of the first two extracted URLs, half its clamped score
\* rounded down and at most 30, and for each of the first two extracted
\* phone numbers, a third of its clamped score rounded down and at most
\* 15: at most 90 in all.  Its flags are those of its rules and of these
\* URLs and numbers; a third or later URL or number adds nothing.
C20_EmbeddedFolding ==
    call.pc = "returned" /\ call.fn = "analyzeMessage" =>
        /\ call.raw = SumPoints(call.result.details, 1)
                        + FoldedShare(call.result.embeddedUrls, call.result.embeddedPhones)
        /\ FoldedShare(call.result.embeddedUrls, call.result.embeddedPhones) <= 90
        /\ Elements(call.result.flags)
               = {call.result.details[i].flag : i \in 1..Len(call.result.details)}
                     \cup FoldedFlags(call.result.embeddedUrls, call.result.embeddedPhones)

\* analyzeMessage has returned for a text with three or more URLs, one
\* after the second with a score of its own, after a text whose two URLs
\* both added to the total.
C20_Witness ==
    /\ call.pc = "returned" /\ call.fn = "analyzeMessage"
    /\ Len(call.result.embeddedUrls) >= 3
    /\ \E i \in 3..Len(call.result.embeddedUrls) :
           UrlResultTable[call.result.embeddedUrls[i]].riskScore >= 2
    /\ seen # Idle /\ seen.result.inputType = "message"
    /\ Len(seen.result.embeddedUrls) = 2
    /\ UrlShare(seen.result.embeddedUrls, 1) > 0
    /\ UrlShare(seen.result.embeddedUrls, 2) > 0

\* The patterns of each rule that match somewhere in a text of the model,
\* tested one by one on the text in lower case.
MatchingPatterns(text) ==
    [r \in 1..Len(MESSAGE_RULES) |->
        {k \in 1..Len(MESSAGE_RULES[r].patterns) :
            MatchStart(MESSAGE_RULES[r].patterns[k], toLowerCase(text), 0) # -1}]

MatchingTable == [x \in Corpus |-> MatchingPatterns(x)]

\* The rules with a matching pattern, and the sum of their weights from
\* rule r on.
FiredRules(text) == {r \in 1..Len(MESSAGE_RULES) : MatchingTable[text][r] # {}}

RECURSIVE FiredWeight(_, _)
FiredWeight(text, r) ==
    IF r > Len(MESSAGE_RULES) THEN 0
    ELSE (IF r \in FiredRules(text) THEN MESSAGE_RULES[r].weight ELSE 0)
             + FiredWeight(text, r + 1)

\* The position of a rule in the catalog.
RuleIndex(name) == CHOOSE r \in 1..Len(MESSAGE_RULES) : MESSAGE_RULES[r].name = name

\* C21: analyzeMessage adds the weight of a rule once when one or more of
\* its patterns match: the raw total less what the embedded URLs and phone
\* numbers add is the sum of the weights of the rules with a matching
\* pattern, and each of these rules has one details entry, with its flag
\* and its weight as points, and one flag, in the order of the catalog.
C21_RuleOncePerMessage ==
    call.pc = "returned" /\ call.fn = "analyzeMessage" =>
        /\ call.raw - FoldedShare(call.result.embeddedUrls, call.result.embeddedPhones)
               = FiredWeight(call.input, 1)
        /\ Len(call.result.details) = Cardinality(FiredRules(call.input))
        /\ \A i \in 1..Len(call.result.details) :
               /\ \E r \in FiredRules(call.input) :
                      call.result.details[i]
                          = [rule |-> MESSAGE_RULES[r].name, flag |-> MESSAGE_RULES[r].flag,
                             points |-> MESSAGE_RULES[r].weight]
               /\ call.result.flags[i] = call.result.details[i].flag
               /\ \A j \in 1..(i - 1) :
                      RuleIndex(call.result.details[j].rule)
                          < RuleIndex(call.result.details[i].rule)
        /\ \A r \in FiredRules(call.input) :
               Cardinality({i \in 1..Len(call.result.flags) :
                               call.result.flags[i] = MESSAGE_RULES[r].flag}) = 1

\* analyzeMessage has returned for a text in which two patterns of one rule
\* match, one of them at two places, and two or more rules fire.
C21_Witness ==
    /\ call.pc = "returned" /\ call.fn = "analyzeMessage"
    /\ call.input = "jaldi karo, otp bhejo abhi"
    /\ Cardinality(MatchingTable[call.input][2]) >= 2
    /\ Cardinality(FiredRules(call.input)) >= 2
    /\ Len(call.result.details) = Cardinality(FiredRules(call.input))

\* The number of places in s at which word occurs.
Occurrences(word, s) ==
    Cardinality({p \in 0..(Len(s) - Len(word)) : SubSeq(s, p + 1, p + Len(word)) = word})

\* The occurrences of the suspicious path tokens in a URL, from token i on.
RECURSIVE TokenOccurrences(_, _)
TokenOccurrences(url, i) ==
    IF i > Len(SUSPICIOUS_PATH_TOKENS) THEN 0
    ELSE Occurrences(SUSPICIOUS_PATH_TOKENS[i], toLowerCase(url))
             + TokenOccurrences(url, i + 1)

TokenOccurrencesTable == [x \in Corpus |-> TokenOccurrences(x, 1)]

\* What the suspicious path tokens added to the raw total of a call of
\* analyzeUrl: every other check adds the points of its details entry.
TokenPoints ==
    call.raw - SumPoints(call.result.details, 1)
        + 12 * Cardinality(EntriesOf(call.result, "suspicious_path_token"))

\* C22: analyzeUrl adds 12 for each occurrence of a suspicious path token
\* in the URL, and records the flag suspicious_path_token and its details
\* entry once.  (The loop adds 12 for each token of the list that occurs,
\* however often it occurs.)
C22_TokenPerOccurrence ==
    call.pc = "returned" /\ call.fn = "analyzeUrl" =>
        /\ TokenPoints = 12 * TokenOccurrencesTable[call.input]
        /\ Cardinality(EntriesOf(call.result, "suspicious_path_token")) <= 1
        /\ Cardinality({i \in 1..Len(call.result.flags) :
                           call.result.flags[i] = "suspicious_path_token"}) <= 1

\* What the repetition checks owe a phone number: 15 when its last ten
\* digits hold 2 or fewer different digits, else 12 when some digit stands
\* 5 or more times in a row, else nothing.
RepetitionPoints(phone) ==
    IF Cardinality({At(DigitsOf(phone), i) :
                       i \in Max(1, Len(DigitsOf(phone)) - 9)..Len(DigitsOf(phone))}) <= 2
    THEN 15
    ELSE IF \E p \in 1..(Len(DigitsOf(phone)) - 4) :
                \A j \in 1..4 : At(DigitsOf(phone), p + j) = At(DigitsOf(phone), p)
         THEN 12
    ELSE 0

RepetitionTable == [x \in Corpus |-> RepetitionPoints(x)]

\* C23: a result of analyzePhone has at most one flag
\* suspicious_repeated_digits and one details entry for it: with 15 points
\* when the last ten digits hold 2 or fewer different digits, with 12 when
\* they do not and a digit stands 5 or more times in a row, and none
\* otherwise; 9999999999 has the flag once, with 15 points.
C23_RepetitionOnce ==
    call.pc = "returned" /\ call.fn = "analyzePhone" =>
        /\ Cardinality({i \in 1..Len(call.result.flags) :
                           call.result.flags[i] = "suspicious_repeated_digits"})
               = IF RepetitionTable[call.input] = 0 THEN 0 ELSE 1
        /\ Cardinality(EntriesOf(call.result, "suspicious_repeated_digits"))
               = IF RepetitionTable[call.input] = 0 THEN 0 ELSE 1
        /\ \A i \in EntriesOf(call.result, "suspicious_repeated_digits") :
               /\ call.result.details[i].points = RepetitionTable[call.input]
               /\ call.result.details[i].rule
                      = IF RepetitionTable[call.input] = 15 THEN "repeated_digits"
                        ELSE "repeated_sequence"
        /\ call.input = "9999999999" =>
               /\ HasFlag(call.result.flags, "suspicious_repeated_digits")
               /\ call.raw = 15

\* analyzePhone has returned for 9999999999, for which both checks hold,
\* after an analysis of a number with a run of five and many digits.
C23_Witness ==
    /\ call.pc = "returned" /\ call.fn = "analyzePhone"
    /\ call.input = "9999999999"
    /\ HasDigitRun(call.input)
    /\ seen # Idle /\ seen.type = "phone"
    /\ RepetitionTable[seen.input] = 12
    /\ HasFlag(seen.result.flags, "suspicious_repeated_digits")

\* Whether a text has URL shape for detectInputType.
UrlShaped(text) == Ends(UrlShapePattern, toLowerCase(trim(text)), 0) # <<>>

\* Whether a text without its white space has 10 or more characters, all
\* of them digits, "+", "-" or parentheses.
PhoneCharsOnly(text) ==
    /\ Len(StripFrom(text, 1, SpaceChars)) >= 10
    /\ AllIn(StripFrom(text, 1, SpaceChars), Digit \cup {"+", "-", "(", ")"})

ShapeTable ==
    [x \in Corpus |->
        IF UrlShaped(normalizeInput(x)) THEN "url"
        ELSE IF PhoneCharsOnly(normalizeInput(x)) THEN "phone"
        ELSE "message"]

\* C24: detectInputType takes a text with URL shape for a URL, any other
\* text that without its white space has 10 or more characters, all of
\* them digits, "+", "-" or parentheses, for a phone number, and the rest
\* for messages.  (The pattern is ^[+]?[0-9\s\-()]{10,}$: a "+" is allowed
\* in the first place only and does not count towards the 10.)
C24_DetectPhoneShape ==
    call.pc = "returned" /\ call.fn = "analyze" /\ call.type \in {"auto", ""} =>
        call.result.inputType = ShapeTable[call.input]

\* The number of Devanagari characters and of Latin letters of a text.
Devanagari(text) == Cardinality({i \in 1..Len(text) : At(text, i) \in DevanagariChars})

Latin(text) == Cardinality({i \in 1..Len(text) : At(text, i) \in Lower \cup Upper})

CountsTable ==
    [x \in Corpus |-> [d |-> Devanagari(normalizeInput(x)), l |-> Latin(normalizeInput(x))]]

\* C25: the language of a text with d Devanagari characters and l Latin
\* letters is english when d = 0, hindi when d > l, and hinglish when
\* d > 0 and l >= d.
C25_LanguageByCounts ==
    call.pc = "returned" /\ call.fn = "analyze" =>
        call.result.language
            = IF CountsTable[call.input].d = 0 THEN "english"
              ELSE IF CountsTable[call.input].d > CountsTable[call.input].l THEN "hindi"
              ELSE "hinglish"

\* analyze has returned for a text with one Devanagari character among
\* Latin letters, after one for a text with as many of the one as of the
\* other.
C25_Witness ==
    /\ call.pc = "returned" /\ call.fn = "analyze"
    /\ CountsTable[call.input].d = 1 /\ CountsTable[call.input].l > 5
    /\ call.result.language = "hinglish"
    /\ seen # Idle
    /\ CountsTable[seen.input].d > 0
    /\ CountsTable[seen.input].d = CountsTable[seen.input].l
    /\ seen.result.language = "hinglish"

\* C26: embeddedUrls and embeddedPhones of a result of analyzeMessage are
\* all the matches of the extraction, not only the first two, and each of
\* them is a piece of the analysed text as it stands.  (extractPhones
\* matches in the text without its spaces and hyphens: a number written
\* with them is returned without them and stands nowhere in the text.)
C26_EmbeddedAreSubstrings ==
    call.pc = "returned" /\ call.fn = "analyzeMessage" =>
        /\ call.result.embeddedUrls = extractUrls(call.input)
        /\ call.result.embeddedPhones = extractPhones(call.input)
        /\ \A i \in 1..Len(call.result.embeddedUrls) :
               includes(call.input, call.result.embeddedUrls[i])
        /\ \A i \in 1..Len(call.result.embeddedPhones) :
               includes(call.input, call.result.embeddedPhones[i])

\* The sentences of the fallback explanation, each with the blank that
\* joins it to the sentence before.
Headline(riskLevel) ==
    CASE riskLevel = "high_risk"  -> "HIGH RISK: This appears to be a potential scam."
      [] riskLevel = "suspicious" -> "SUSPICIOUS: This has some concerning patterns."
      [] riskLevel = "safe"       -> "LOW RISK: No major red flags detected."

IssuesSentence(flags) ==
    IF Len(flags) = 0 THEN ""
    ELSE " Detected issues: " \o DescribeFlag(flags[1])
             \o (IF Len(flags) >= 2 THEN "; " \o DescribeFlag(flags[2]) ELSE "")
             \o (IF Len(flags) >= 3 THEN "; " \o DescribeFlag(flags[3]) ELSE "")
             \o "."

CautionSentence(riskLevel) ==
    IF riskLevel = "safe" THEN ""
    ELSE " Do NOT click links, share OTP, or send money. Verify through official channels."

\* C27: the fallback explanation for a risk level and flags is not empty
\* and is the headline of the level, then, when there are flags, the
\* sentence with the descriptions of the first three of them at most (the
\* entry of FLAG_DESCRIPTIONS, else the flag with blanks for underscores),
\* then the caution when the level is not safe; so it is a function of the
\* level and the first three flags.
C27_FallbackShape ==
    call.pc = "returned" /\ call.fn \in {"generateFallbackExplanation", "analyze"} =>
        /\ call.result.explanation # ""
        /\ call.result.explanation
               = Headline(call.result.riskLevel) \o IssuesSentence(call.result.flags)
                     \o CautionSentence(call.result.riskLevel)

\* generateFallbackExplanation has returned for five flags, of which the
\* second has no entry in FLAG_DESCRIPTIONS, and a level that is not safe.
C27_Witness ==
    /\ call.pc = "returned" /\ call.fn = "generateFallbackExplanation"
    /\ Len(call.result.flags) = 5
    /\ call.result.flags[2] \notin DOMAIN FLAG_DESCRIPTIONS
    /\ call.result.riskLevel = "high_risk"
    /\ includes(call.result.explanation, "suspicious path token; ")
    /\ ~includes(call.result.explanation, FLAG_DESCRIPTIONS.suspicious_tld)

\* C28: the copy of the input that POST hands to the collaborator has at
\* most 300 characters.  (An input of more than 300 characters is cut to
\* its first 300 and "..." is appended: 303 characters are sent.)
C28_PromptInputBounded ==
    \A r \in Reqs :
        reqs[r].pc \in {"fetching", "hung", "reading", "explained", "done"} =>
            Len(reqs[r].safeInput) <= 300

\* C29: a result of analyzePhone has a score of 50 at most, the sum of the
\* points of its details entries, and the level safe or suspicious; it
\* never has both suspicious_number_length and invalid_number_pattern.
C29_PhoneNeverHighRisk ==
    AnalyzedAsPhone =>
        /\ call.raw <= 50
        /\ call.result.riskScore = call.raw
        /\ call.result.riskScore = SumPoints(call.result.details, 1)
        /\ call.result.riskLevel \in {"safe", "suspicious"}
        /\ ~(/\ HasFlag(call.result.flags, "suspicious_number_length")
             /\ HasFlag(call.result.flags, "invalid_number_pattern"))

\* analyzePhone has returned the score 50, for a number with a foreign
\* code, ten digits that start with 1, and one digit only.
C29_Witness ==
    /\ call.pc = "returned" /\ call.fn = "analyzePhone"
    /\ call.result.riskScore = 50
    /\ call.result.flags = <<"foreign_country_code", "invalid_number_pattern",
                             "suspicious_repeated_digits">>


=============================================================================
